---- MODULE Spec2Model ----
(***************************************************************************)
(* Hoya: the guest execution host.  One /execute request is modelled from  *)
(* its arrival to its response: classification of the URL, download of the *)
(* payload, the scripted (QuickJS) engine and the compiled-module          *)
(* (wasmtime) engine, and the host functions a guest may call.             *)
(*                                                                         *)
(* Text is held as sequences of byte values (ASCII codes), so that         *)
(* formatting, upper-casing, UTF-8 validation and suffix tests are         *)
(* computed and not assumed.                                               *)
(***************************************************************************)
EXTENDS Integers, Sequences, FiniteSets, TLC

\* ---------------------------------------------------------------- bounds
\* number of host-function calls one guest makes in the model
MaxCalls == 2

\* number of bits of the guest-facing integer types.  The host functions
\* take u32 arguments and fetch returns an i32; the model keeps the two's
\* complement arithmetic and scales the width down from 32 bits.
AddrBits == 10

\* number of requests served concurrently in the model of the sessions
NSessions == 2

\* number of worker threads of the async runtime
Workers == 1

\* number of bridge calls the guest of one concurrent session makes
MaxSessionCalls == 1

\* ------------------------------------------------------- integer widths
\* number of values of a u32 (2^32 in the program)
U32 == 2 ^ AddrBits
\* i32 values lie in -I31 .. I31-1 (I31 is 2^31 in the program)
I31 == U32 \div 2

\* `x as i32` applied to a usize: keep the low 32 bits, read them signed
AsI32(n) ==
    LET m == n % U32 IN IF m >= I31 THEN m - U32 ELSE m

\* `a + b` on two u32 values in a build without overflow checks
WrapAddU32(a, b) == (a + b) % U32

\* ------------------------------------------------------------- options
None == [some |-> FALSE, v |-> <<>>]
Some(x) == [some |-> TRUE, v |-> x]

\* ------------------------------------------------------------ text
\* str::ends_with
EndsWith(s, suf) ==
    /\ Len(s) >= Len(suf)
    /\ SubSeq(s, Len(s) - Len(suf) + 1, Len(s)) = suf

\* ".js"
SUFFIX_JS == <<46, 106, 115>>
\* ".wasm"
SUFFIX_WASM == <<46, 119, 97, 115, 109>>

\* The URLs a client sends: "a.js", "a.wasm", "a.txt", "a.js?v=1", "wasm",
\* "A.JS" and the empty string.
Urls ==
    { <<97, 46, 106, 115>>,
      <<97, 46, 119, 97, 115, 109>>,
      <<97, 46, 116, 120, 116>>,
      <<97, 46, 106, 115, 63, 118, 61, 49>>,
      <<119, 97, 115, 109>>,
      <<65, 46, 74, 83>>,
      <<>> }

\* ------------------------------------------------------------ errors
\* AppError -> (HTTP status, error code), from IntoResponse for AppError
into_response(kind) ==
    CASE kind = "QuickJs"  -> [http |-> 500, code |-> "JAVASCRIPT_EXECUTION_ERROR"]
      [] kind = "Wasmtime" -> [http |-> 500, code |-> "WEBASSEMBLY_EXECUTION_ERROR"]
      [] kind = "Reqwest"  -> [http |-> 502, code |-> "FETCH_ERROR"]
      [] kind = "Internal" -> [http |-> 500, code |-> "INTERNAL_ERROR"]

\* ExecutionMetadata, without the timestamp
ExecutionMetadata(et, ct, size) ==
    [execution_time |-> et, code_type |-> ct, resource_size |-> size]

\* the error envelope: no output, no captured streams, metadata zeroed.
\* `keys` are the fields the struct literal names
ErrorResponse(kind) ==
    [ http      |-> into_response(kind).http,
      status    |-> "error",
      output    |-> None,
      stdout    |-> None,
      stderr    |-> None,
      code      |-> into_response(kind).code,
      err_kind  |-> kind,
      code_type |-> "unknown",
      execution_time |-> 0,
      resource_size  |-> 0,
      keys      |-> {"status", "output", "error", "metadata"} ]

\* the success envelope built by execute_js and execute_wasm
SuccessResponse(out, so, se, md) ==
    [ http      |-> 200,
      status    |-> "success",
      output    |-> Some(out),
      stdout    |-> Some(so),
      stderr    |-> Some(se),
      code      |-> "none",
      err_kind  |-> "none",
      code_type |-> md.code_type,
      execution_time |-> md.execution_time,
      resource_size  |-> md.resource_size,
      keys      |-> {"status", "output", "stdout", "stderr", "error", "metadata"} ]

NoResponse ==
    [ http |-> 0, status |-> "pending", output |-> None, stdout |-> None,
      stderr |-> None, code |-> "none", err_kind |-> "none",
      code_type |-> "unknown", execution_time |-> 0, resource_size |-> 0,
      keys |-> {} ]

\* ------------------------------------------------------ bytes and text
RECURSIVE Utf8Valid(_)
\* std::str::from_utf8: TRUE iff the bytes are well-formed UTF-8
Utf8Valid(b) ==
    IF b = <<>> THEN TRUE
    ELSE LET c == b[1]
             Cont(i) == Len(b) >= i /\ b[i] >= 128 /\ b[i] <= 191
         IN  IF c < 128 THEN Utf8Valid(Tail(b))
             ELSE IF c >= 194 /\ c <= 223
                  THEN Cont(2) /\ Utf8Valid(SubSeq(b, 3, Len(b)))
             ELSE IF c >= 224 /\ c <= 239
                  THEN /\ Cont(2) /\ Cont(3)
                       /\ (c = 224 => b[2] >= 160)
                       /\ (c = 237 => b[2] <= 159)
                       /\ Utf8Valid(SubSeq(b, 4, Len(b)))
             ELSE IF c >= 240 /\ c <= 244
                  THEN /\ Cont(2) /\ Cont(3) /\ Cont(4)
                       /\ (c = 240 => b[2] >= 144)
                       /\ (c = 244 => b[2] <= 143)
                       /\ Utf8Valid(SubSeq(b, 5, Len(b)))
             ELSE FALSE

\* str::to_uppercase / String.prototype.toUpperCase on the ASCII letters
\* (the texts of the model hold no other cased character)
to_uppercase(s) ==
    [i \in 1..Len(s) |-> IF s[i] >= 97 /\ s[i] <= 122 THEN s[i] - 32 ELSE s[i]]

RECURSIVE Decimal(_)
\* integer to_string
Decimal(n) ==
    IF n < 10 THEN <<48 + n>> ELSE Decimal(n \div 10) \o <<48 + (n % 10)>>

HexDigit(d) == IF d < 10 THEN 48 + d ELSE 87 + d

\* a serializer that writes every byte as it is
EscByte_raw(b) == <<b>>

\* serde_json's escaping of one byte of a string
EscByte(b) ==
    CASE b = 34 -> <<92, 34>>
      [] b = 92 -> <<92, 92>>
      [] b = 8  -> <<92, 98>>
      [] b = 9  -> <<92, 116>>
      [] b = 10 -> <<92, 110>>
      [] b = 12 -> <<92, 102>>
      [] b = 13 -> <<92, 114>>
      [] b < 32 /\ b \notin {8, 9, 10, 12, 13}
                -> <<92, 117, 48, 48, HexDigit(b \div 16), HexDigit(b % 16)>>
      [] OTHER  -> <<b>>

RECURSIVE EscBytes(_)
EscBytes(s) == IF s = <<>> THEN <<>> ELSE EscByte(s[1]) \o EscBytes(Tail(s))

\* a JSON string literal: quote, escaped contents, quote
JsonString(s) == <<34>> \o EscBytes(s) \o <<34>>

\* A byte string that may be longer than i32::MAX is held in three parts:
\* the bytes pre, then `fill` repetitions of the letter "a", then the bytes
\* post.  Text(s) holds the plain bytes s.
Text(s) == [pre |-> s, fill |-> 0, post |-> <<>>]
Filled(n) == [pre |-> <<>>, fill |-> n, post |-> <<>>]

\* String::len / Vec::len
BLen(t) == Len(t.pre) + t.fill + Len(t.post)

\* the plain bytes (used only where they are copied)
Flat(t) == t.pre \o [i \in 1..t.fill |-> 97] \o t.post

\* t1 followed by t2, where at most one of them has a filled part
BCat(t1, t2) ==
    IF t1.fill = 0
    THEN [pre |-> t1.pre \o t1.post \o t2.pre, fill |-> t2.fill, post |-> t2.post]
    ELSE [pre |-> t1.pre, fill |-> t1.fill, post |-> t1.post \o t2.pre \o t2.post]

\* a JSON string literal of a long byte string (the letter "a" needs no
\* escaping)
JsonStringLong(t) ==
    [pre |-> <<34>> \o EscBytes(t.pre), fill |-> t.fill,
     post |-> EscBytes(t.post) \o <<34>>]

\* ------------------------------------------- fetch wire format (JSON)
\* WasmFetchOptions: url, method, headers (a sequence of <<name, value>>
\* pairs without repeated names), body (an option)
FetchOptions(u, m, h, bd) == [url |-> u, method |-> m, headers |-> h, body |-> bd]

RECURSIVE HeadersJsonFrom(_, _)
HeadersJsonFrom(h, i) ==
    IF i > Len(h) THEN <<>>
    ELSE (IF i > 1 THEN <<44>> ELSE <<>>)
         \o JsonString(h[i][1]) \o <<58>> \o JsonString(h[i][2])
         \o HeadersJsonFrom(h, i + 1)

\* a header map as a JSON object
HeadersJson(h) == <<123>> \o HeadersJsonFrom(h, 1) \o <<125>>

\* the JSON document a guest writes for a request:
\* {"url":..,"method":..,"headers":{..}[,"body":..]}
OptionsJson(o) ==
    <<123, 34, 117, 114, 108, 34, 58>> \o JsonString(o.url)
    \o <<44, 34, 109, 101, 116, 104, 111, 100, 34, 58>> \o JsonString(o.method)
    \o <<44, 34, 104, 101, 97, 100, 101, 114, 115, 34, 58>> \o HeadersJson(o.headers)
    \o (IF o.body.some
        THEN <<44, 34, 98, 111, 100, 121, 34, 58>> \o JsonString(o.body.v)
        ELSE <<>>)
    \o <<125>>

\* "http://h/"
URL_H == <<104, 116, 116, 112, 58, 47, 47, 104, 47>>

\* The requests guests of the model write into their memory:
\*   GET without headers; PURGE (an extension method) with a header and a
\*   body; the method "G T"; the header name "a b"; a header value holding
\*   a line feed.
OptGood == FetchOptions(URL_H, <<71, 69, 84>>, <<>>, None)
OptPurge == FetchOptions(URL_H, <<80, 85, 82, 71, 69>>,
                         << << <<120, 45, 107>>, <<111, 107>> >> >>, Some(<<104, 105>>))
OptBadMethod == FetchOptions(URL_H, <<71, 32, 84>>, <<>>, None)
OptBadHeaderName ==
    FetchOptions(URL_H, <<71, 69, 84>>, << << <<97, 32, 98>>, <<111, 107>> >> >>, None)
OptBadHeaderValue ==
    FetchOptions(URL_H, <<71, 69, 84>>, << << <<120, 45, 107>>, <<111, 10, 107>> >> >>, None)

OptionsUniverse ==
    {OptGood, OptPurge, OptBadMethod, OptBadHeaderName, OptBadHeaderValue}

\* serde_json::from_slice::<WasmFetchOptions>: on the byte slices a guest of
\* the model can pass, a slice decodes iff it is the document of one of the
\* requests above (every other slice is a fragment of guest data)
OptionDocs == [o \in OptionsUniverse |-> OptionsJson(o)]

DecodeOptions(bytes) ==
    IF \E o \in OptionsUniverse : OptionDocs[o] = bytes
    THEN Some(CHOOSE o \in OptionsUniverse : OptionDocs[o] = bytes)
    ELSE None

\* token characters of RFC 7230 (method and header-name alphabet)
IsTchar(c) ==
    \/ c >= 48 /\ c <= 57
    \/ c >= 65 /\ c <= 90
    \/ c >= 97 /\ c <= 122
    \/ c \in {33, 35, 36, 37, 38, 39, 42, 43, 45, 46, 94, 95, 96, 124, 126}

\* reqwest::Method::from_bytes succeeds
MethodValid(m) == Len(m) > 0 /\ \A i \in 1..Len(m) : IsTchar(m[i])

\* reqwest::header::HeaderName::from_bytes succeeds
HeaderNameValid(k) == Len(k) > 0 /\ \A i \in 1..Len(k) : IsTchar(k[i])

\* reqwest::header::HeaderValue::from_str succeeds
HeaderValueValid(v) ==
    \A i \in 1..Len(v) : (v[i] >= 32 /\ v[i] # 127) \/ v[i] = 9

\* the validation of method and headers that precedes the request
RequestValid(o) ==
    /\ MethodValid(o.method)
    /\ \A i \in 1..Len(o.headers) :
          HeaderNameValid(o.headers[i][1]) /\ HeaderValueValid(o.headers[i][2])

\* serde_json::to_vec(&WasmFetchResponse):
\* {"status":N,"headers":{..},"body":"..","error":null|{"code":..,"message":..}}
ResponseJson(r) ==
    BCat(BCat(Text(<<123, 34, 115, 116, 97, 116, 117, 115, 34, 58>>
                   \o Decimal(r.status)
                   \o <<44, 34, 104, 101, 97, 100, 101, 114, 115, 34, 58>>
                   \o HeadersJson(r.headers)
                   \o <<44, 34, 98, 111, 100, 121, 34, 58>>),
              JsonStringLong(r.body)),
         Text(<<44, 34, 101, 114, 114, 111, 114, 34, 58>>
              \o (IF r.error.some
                  THEN <<123, 34, 99, 111, 100, 101, 34, 58>>
                       \o JsonString(r.error.v.code)
                       \o <<44, 34, 109, 101, 115, 115, 97, 103, 101, 34, 58>>
                       \o JsonString(r.error.v.message) \o <<125>>
                  ELSE <<110, 117, 108, 108>>)
              \o <<125>>))

\* the WasmFetchResponse built when send() fails
\* ("FETCH_FAILED", "HTTP request execution failed: " + e)
ErrorFetchResponse(e) ==
    [ status  |-> 0,
      headers |-> <<>>,
      body    |-> Text(<<>>),
      error   |-> Some([code    |-> <<70, 69, 84, 67, 72, 95, 70, 65, 73, 76, 69, 68>>,
                        message |-> <<72, 84, 84, 80, 32, 114, 101, 113, 117, 101,
                                      115, 116, 32, 101, 120, 101, 99, 117, 116,
                                      105, 111, 110, 32, 102, 97, 105, 108, 101,
                                      100, 58, 32>> \o e]) ]

\* the WasmFetchResponse built from a received response
OkFetchResponse(st, h, bd) ==
    [status |-> st, headers |-> h, body |-> bd, error |-> None]

\* ------------------------------- a reference decoder of fetch results
\* value of a hexadecimal digit, or -1
HexVal(c) ==
    IF c >= 48 /\ c <= 57 THEN c - 48
    ELSE IF c >= 97 /\ c <= 102 THEN c - 87
    ELSE IF c >= 65 /\ c <= 70 THEN c - 55
    ELSE -1

\* a parse: what was read and the bytes left, or a failure
Parsed(x, rest) == [ok |-> TRUE, v |-> x, rest |-> rest]
ParseFail == [ok |-> FALSE, v |-> <<>>, rest |-> <<>>]

\* the bytes b begin with the bytes lit
StartsWith(b, lit) == Len(b) >= Len(lit) /\ SubSeq(b, 1, Len(lit)) = lit
Drop(b, n) == SubSeq(b, n + 1, Len(b))

RECURSIVE ParseStringBody(_, _)
\* the contents of a JSON string up to its closing quote (RFC 8259): plain
\* bytes from 0x20 on, the two-character escapes, and \u00XX
ParseStringBody(b, acc) ==
    IF b = <<>> THEN ParseFail
    ELSE IF b[1] = 34 THEN Parsed(acc, Tail(b))
    ELSE IF b[1] < 32 THEN ParseFail
    ELSE IF b[1] # 92 THEN ParseStringBody(Tail(b), Append(acc, b[1]))
    ELSE IF Len(b) < 2 THEN ParseFail
    ELSE IF b[2] \in {34, 92, 47}
         THEN ParseStringBody(Drop(b, 2), Append(acc, b[2]))
    ELSE IF b[2] \in {98, 102, 110, 114, 116}
         THEN ParseStringBody(Drop(b, 2),
                  Append(acc, CASE b[2] = 98 -> 8 [] b[2] = 102 -> 12
                                [] b[2] = 110 -> 10 [] b[2] = 114 -> 13
                                [] b[2] = 116 -> 9))
    ELSE IF b[2] = 117 /\ Len(b) >= 6 /\ b[3] = 48 /\ b[4] = 48
            /\ HexVal(b[5]) >= 0 /\ HexVal(b[5]) < 8 /\ HexVal(b[6]) >= 0
         THEN ParseStringBody(Drop(b, 6),
                              Append(acc, 16 * HexVal(b[5]) + HexVal(b[6])))
    ELSE ParseFail

\* a JSON string
ParseString(b) ==
    IF b # <<>> /\ b[1] = 34 THEN ParseStringBody(Tail(b), <<>>) ELSE ParseFail

RECURSIVE ParseDigits(_, _, _)
ParseDigits(b, n, any) ==
    IF b # <<>> /\ b[1] >= 48 /\ b[1] <= 57 /\ n <= 65535
    THEN ParseDigits(Tail(b), 10 * n + (b[1] - 48), TRUE)
    ELSE IF any /\ n <= 65535 THEN Parsed(n, b) ELSE ParseFail

\* a JSON number that is a u16
ParseU16(b) == ParseDigits(b, 0, FALSE)

RECURSIVE ParseMembers(_, _)
\* the members of a JSON object of strings, after its opening brace
ParseMembers(b, acc) ==
    LET k == ParseString(b)
    IN  IF ~k.ok \/ k.rest = <<>> \/ k.rest[1] # 58 THEN ParseFail
        ELSE LET v == ParseString(Tail(k.rest))
             IN  IF ~v.ok \/ v.rest = <<>> THEN ParseFail
                 ELSE IF v.rest[1] = 125
                      THEN Parsed(Append(acc, <<k.v, v.v>>), Tail(v.rest))
                 ELSE IF v.rest[1] = 44
                      THEN ParseMembers(Tail(v.rest), Append(acc, <<k.v, v.v>>))
                 ELSE ParseFail

\* a JSON object whose values are strings, as a sequence of <<name, value>>
ParseStringMap(b) ==
    IF StartsWith(b, <<123, 125>>) THEN Parsed(<<>>, Drop(b, 2))
    ELSE IF b # <<>> /\ b[1] = 123 THEN ParseMembers(Tail(b), <<>>)
    ELSE ParseFail

\* Option<WasmFetchError>: null, or an object with the strings "code" and
\* "message"
ParseError(b) ==
    IF StartsWith(b, <<110, 117, 108, 108>>) THEN Parsed(None, Drop(b, 4))
    ELSE LET m == ParseStringMap(b)
         IN  IF m.ok /\ Len(m.v) = 2
                /\ m.v[1][1] = <<99, 111, 100, 101>>
                /\ m.v[2][1] = <<109, 101, 115, 115, 97, 103, 101>>
             THEN Parsed(Some([code |-> m.v[1][2], message |-> m.v[2][2]]), m.rest)
             ELSE ParseFail

\* the member `,"name":` (or `{"name":` for the first) read off the front
AfterKey(b, open, name) ==
    LET k == IF b # <<>> /\ b[1] = open THEN ParseString(Tail(b)) ELSE ParseFail
    IN  IF k.ok /\ k.v = name /\ k.rest # <<>> /\ k.rest[1] = 58
        THEN Parsed(name, Tail(k.rest)) ELSE ParseFail

\* serde_json::from_slice::<WasmFetchResponse> on a document whose members
\* come in the order of the struct's fields: the four fields, or nothing
DecodeResponse(bytes) ==
    LET k1 == AfterKey(bytes, 123, <<115, 116, 97, 116, 117, 115>>)
        st == IF k1.ok THEN ParseU16(k1.rest) ELSE ParseFail
        k2 == IF st.ok THEN AfterKey(st.rest, 44, <<104, 101, 97, 100, 101, 114, 115>>)
              ELSE ParseFail
        hd == IF k2.ok THEN ParseStringMap(k2.rest) ELSE ParseFail
        k3 == IF hd.ok THEN AfterKey(hd.rest, 44, <<98, 111, 100, 121>>)
              ELSE ParseFail
        bd == IF k3.ok THEN ParseString(k3.rest) ELSE ParseFail
        k4 == IF bd.ok THEN AfterKey(bd.rest, 44, <<101, 114, 114, 111, 114>>)
              ELSE ParseFail
        er == IF k4.ok THEN ParseError(k4.rest) ELSE ParseFail
    IN  IF er.ok /\ er.rest = <<125>>
        THEN Some([status |-> st.v, headers |-> hd.v, body |-> bd.v,
                   error |-> er.v])
        ELSE None

\* The fetch results followed through the wire format: the statuses 0, 200,
\* 404 and 65535; no header, one header, two headers (one with an empty
\* value); the bodies "", "ok", a"b, a\b, a line feed between letters, the
\* control byte 0x01, and the two bytes of U+00E9; no error, and the errors
\* the host builds for the causes timeout and "x"
WireStatuses == {0, 200, 404, 65535}
WireHeaders ==
    { <<>>,
      << << <<120, 45, 107>>, <<111, 107>> >> >>,
      << << <<120, 45, 107>>, <<>> >>, << <<101, 116, 97, 103>>, <<34, 49, 34>> >> >> }
WireBodies ==
    { <<>>, <<111, 107>>, <<97, 34, 98>>, <<97, 92, 98>>, <<97, 10, 98>>,
      <<1>>, <<195, 169>> }
WireErrors ==
    { None, ErrorFetchResponse(<<116, 105, 109, 101, 111, 117, 116>>).error,
      ErrorFetchResponse(<<34, 120, 34>>).error }
WireResults ==
    { [status |-> st, headers |-> h, body |-> Text(bd), error |-> e] :
        st \in WireStatuses, h \in WireHeaders, bd \in WireBodies,
        e \in WireErrors }

\* ------------------------------------------------------- guest memory
\* The data segment of the model's compiled guests, piece by piece:
\*   1 "info"   2 "hi"   3 one byte that is not UTF-8 (0xFF)
\*   4..8 the request documents
\* followed in memory by a zeroed buffer for responses.
Segments ==
    << <<105, 110, 102, 111>>, <<104, 105>>, <<255>>,
       OptionsJson(OptGood), OptionsJson(OptPurge), OptionsJson(OptBadMethod),
       OptionsJson(OptBadHeaderName), OptionsJson(OptBadHeaderValue) >>

RECURSIVE ConcatFrom(_, _)
ConcatFrom(segs, k) ==
    IF k > Len(segs) THEN <<>> ELSE segs[k] \o ConcatFrom(segs, k + 1)

GuestData == ConcatFrom(Segments, 1)

\* offset of piece k in guest memory
SegAt(k) == Len(GuestData) - Len(ConcatFrom(Segments, k))

\* the (ptr, len) pair that names piece k
Region(k) == <<SegAt(k), Len(Segments[k])>>

\* first byte of the zeroed response buffer
RESP_AT == Len(GuestData)

\* size of the guest's linear memory in bytes (scaled down from 64 KiB pages)
MemSize == 420

\* the linear memory right after instantiation
InitialMemory ==
    [i \in 1..MemSize |-> IF i <= Len(GuestData) THEN GuestData[i] ELSE 0]

\* <[u8]>::get(a..b): the bytes at offsets a .. b-1, or nothing
SliceGet(m, a, b) ==
    IF a > b \/ b > Len(m) THEN None ELSE Some(SubSeq(m, a + 1, b))

\* copy_from_slice into get_mut(a..a+len)
SliceWrite(m, a, bytes) ==
    [i \in 1..Len(m) |->
        IF i > a /\ i <= a + Len(bytes) THEN bytes[i - a] ELSE m[i]]

\* result of a host function: it returns Ok ("ok"), returns Err, which
\* wasmtime turns into a trap ("trap"), or panics ("panic")
HostOk(r, m, text, cnt) ==
    [outcome |-> "ok", why |-> "none", ret |-> r, mem |-> m, line |-> text,
     sent |-> cnt]
HostTrap(reason, m, cnt) ==
    [outcome |-> "trap", why |-> reason, ret |-> 0, mem |-> m, line |-> <<>>,
     sent |-> cnt]
HostPanic(reason, m, cnt) ==
    [outcome |-> "panic", why |-> reason, ret |-> 0, mem |-> m, line |-> <<>>,
     sent |-> cnt]

\* "[WASM LOG - LEVEL]: message"
WasmLogLine(level, msg) ==
    <<91, 87, 65, 83, 77, 32, 76, 79, 71, 32, 45, 32>> \o to_uppercase(level)
    \o <<93, 58, 32>> \o msg

\* `ptr + len` on u32 overflows; with overflow checks compiled in (oc) the
\* addition panics, without them it wraps
AddOverflows(ptr, len) == ptr + len >= U32

\* env.app_log(level_ptr, level_len, msg_ptr, msg_len); has_memory is
\* WasmCtx.memory.is_some(), m the guest memory
app_log(has_memory, m, level_ptr, level_len, msg_ptr, msg_len, oc) ==
    IF ~has_memory THEN HostTrap("memory not initialized", m, 0)
    ELSE IF oc /\ AddOverflows(level_ptr, level_len)
    THEN HostPanic("attempt to add with overflow", m, 0)
    ELSE LET level_bytes == SliceGet(m, level_ptr, WrapAddU32(level_ptr, level_len))
    IN  IF ~level_bytes.some THEN HostTrap("level out of bounds", m, 0)
        ELSE IF ~Utf8Valid(level_bytes.v) THEN HostTrap("level not valid UTF-8", m, 0)
        ELSE IF oc /\ AddOverflows(msg_ptr, msg_len)
        THEN HostPanic("attempt to add with overflow", m, 0)
        ELSE LET msg_bytes == SliceGet(m, msg_ptr, WrapAddU32(msg_ptr, msg_len))
        IN  IF ~msg_bytes.some THEN HostTrap("message out of bounds", m, 0)
            ELSE IF ~Utf8Valid(msg_bytes.v)
            THEN HostTrap("message not valid UTF-8", m, 0)
            ELSE HostOk(0, m, WasmLogLine(level_bytes.v, msg_bytes.v), 0)

\* a host that learns the size of the result without sending the request
\* when the result does not fit the declared capacity
WriteResponse_unsent(m, json, resp_buf_ptr, resp_buf_max_len, oc) ==
    LET n == BLen(json)
    IN  IF n > resp_buf_max_len
        THEN HostOk(-AsI32(n), m, <<>>, 0)
        ELSE IF resp_buf_ptr + n > Len(m)
             THEN HostTrap("response buffer out of bounds", m, 1)
             ELSE HostOk(AsI32(n), SliceWrite(m, resp_buf_ptr, Flat(json)), <<>>, 1)

\* the tail of fetch shared by the error path and the success path: the
\* capacity test, the negative return, the bounds-checked copy
WriteResponse(m, json, resp_buf_ptr, resp_buf_max_len, oc) ==
    LET n == BLen(json)
    IN  IF n > resp_buf_max_len
        THEN IF AsI32(n) = -I31
             THEN IF oc THEN HostPanic("attempt to negate with overflow", m, 1)
                  ELSE HostOk(-I31, m, <<>>, 1)
             ELSE HostOk(-AsI32(n), m, <<>>, 1)
        ELSE IF resp_buf_ptr + n > Len(m)
             THEN HostTrap("response buffer out of bounds", m, 1)
             ELSE HostOk(AsI32(n), SliceWrite(m, resp_buf_ptr, Flat(json)), <<>>, 1)

\* a fetch that hands the request to the HTTP client before it has looked at
\* the headers
fetch_send_first(has_memory, m, options_ptr, options_len, resp_buf_ptr, resp_buf_max_len, net, oc) ==
    IF ~has_memory THEN HostTrap("memory not initialized", m, 0)
    ELSE IF oc /\ AddOverflows(options_ptr, options_len)
    THEN HostPanic("attempt to add with overflow", m, 0)
    ELSE LET options_bytes ==
                 SliceGet(m, options_ptr, WrapAddU32(options_ptr, options_len))
    IN  IF ~options_bytes.some THEN HostTrap("options out of bounds", m, 0)
        ELSE LET fetch_options == DecodeOptions(options_bytes.v)
        IN  IF ~fetch_options.some
            THEN HostTrap("failed to deserialize options JSON", m, 0)
            ELSE IF ~MethodValid(fetch_options.v.method)
            THEN HostTrap("invalid HTTP method string", m, 0)
            ELSE IF ~RequestValid(fetch_options.v)
            THEN HostTrap("invalid header", m, 1)
            ELSE IF net.kind = "send_err"
            THEN WriteResponse(m, ResponseJson(ErrorFetchResponse(net.e)),
                               resp_buf_ptr, resp_buf_max_len, oc)
            ELSE IF net.kind = "body_err"
            THEN HostTrap("failed to read response body as text", m, 1)
            ELSE WriteResponse(m,
                     ResponseJson(OkFetchResponse(net.status, net.headers, net.body)),
                     resp_buf_ptr, resp_buf_max_len, oc)

\* env.fetch(options_ptr, options_len, resp_buf_ptr, resp_buf_max_len);
\* net is what the outbound HTTP request does once it is sent
fetch(has_memory, m, options_ptr, options_len, resp_buf_ptr, resp_buf_max_len, net, oc) ==
    IF ~has_memory THEN HostTrap("memory not initialized", m, 0)
    ELSE IF oc /\ AddOverflows(options_ptr, options_len)
    THEN HostPanic("attempt to add with overflow", m, 0)
    ELSE LET options_bytes ==
                 SliceGet(m, options_ptr, WrapAddU32(options_ptr, options_len))
    IN  IF ~options_bytes.some THEN HostTrap("options out of bounds", m, 0)
        ELSE LET fetch_options == DecodeOptions(options_bytes.v)
        IN  IF ~fetch_options.some
            THEN HostTrap("failed to deserialize options JSON", m, 0)
            ELSE IF ~MethodValid(fetch_options.v.method)
            THEN HostTrap("invalid HTTP method string", m, 0)
            ELSE IF ~RequestValid(fetch_options.v)
            THEN HostTrap("invalid header", m, 0)
            ELSE IF net.kind = "send_err"
            THEN WriteResponse(m, ResponseJson(ErrorFetchResponse(net.e)),
                               resp_buf_ptr, resp_buf_max_len, oc)
            ELSE IF net.kind = "body_err"
            THEN HostTrap("failed to read response body as text", m, 1)
            ELSE WriteResponse(m,
                     ResponseJson(OkFetchResponse(net.status, net.headers, net.body)),
                     resp_buf_ptr, resp_buf_max_len, oc)

\* env.get_unixtime(): whole seconds since the epoch; a clock before the
\* epoch is an Err
get_unixtime(clock_ms, m) ==
    IF clock_ms < 0 THEN HostTrap("Failed to get system time", m, 0)
    ELSE HostOk(clock_ms \div 1000, m, <<>>, 0)

\* ---------------------------------------------------- JavaScript values
\* JavaScript values a script of the model handles
JsUndefined == [t |-> "undefined", s |-> <<>>, n |-> 0]
JsNull == [t |-> "null", s |-> <<>>, n |-> 0]
JsObject == [t |-> "object", s |-> <<>>, n |-> 0]
JsString(x) == [t |-> "string", s |-> x, n |-> 0]
JsInt(k) == [t |-> "int", s |-> <<>>, n |-> k]
JsBool(b) == [t |-> "bool", s |-> <<>>, n |-> IF b THEN 1 ELSE 0]
\* a float with one decimal digit, held in tenths (25 is 2.5)
JsFloat(tenths) == [t |-> "float", s |-> <<>>, n |-> tenths]
\* no value yet
NoValue == [t |-> "none", s |-> <<>>, n |-> 0]

\* completion values of scripts ("1+1" completes with the integer 2,
\* "5/2" with the float 2.5)
JsResults ==
    {JsString(<<104, 105>>), JsString(<<>>), JsInt(2), JsInt(-3), JsFloat(25),
     JsBool(TRUE), JsBool(FALSE), JsNull, JsUndefined, JsObject}

\* the completion of a script whose last expression is get_unixtime()
JsClock == [t |-> "clock", s |-> <<>>, n |-> 0]

\* Date.now() / 1000 at a host clock of clock_ms milliseconds: a whole
\* number of seconds only when the clock reads a full second
ClockValue(clock_ms) ==
    IF clock_ms % 1000 = 0 THEN JsInt(clock_ms \div 1000)
    ELSE JsFloat(clock_ms \div 100)

\* ----------------------------------------------------------- payloads
\* number of bytes of the model's compiled payloads
WASM_SIZE == 40

\* What a download can deliver for a ".wasm" URL.  A module is described by
\* what the engine asks of it:
\*   binary_ok      Module::from_binary accepts the bytes
\*   imports_ok     every import is one the linker defines
\*   memory_export  the export named "memory": a memory, nothing, or an
\*                  export of another kind
\*   start_section  what the module's start function does at instantiation
\*   start_export   the export named "_start": a () -> () function, nothing,
\*                  or an export of another type
\* and size, the number of bytes downloaded
WasmModule(b, i, me, ss, se) ==
    [binary_ok |-> b, imports_ok |-> i, memory_export |-> me,
     start_section |-> ss, start_export |-> se, size |-> WASM_SIZE]

WasmPayloads ==
    {WasmModule(FALSE, TRUE, "memory", "none", "typed")}
    \cup { WasmModule(TRUE, i, me, ss, se) :
             i \in BOOLEAN,
             me \in {"memory", "none", "not_memory"},
             ss \in {"none", "traps", "calls_app_log"},
             se \in {"typed", "none", "wrong_type"} }

\* number of bytes of the model's scripts
JS_SIZE == 14

\* What a download can deliver for a ".js" URL: bytes that are UTF-8 or
\* not, holding a script that parses or not; a script that parses is
\* described by its completion: one of the values, or the clock
JsPayloads ==
    { [utf8 |-> u, parses |-> FALSE, completes |-> JsUndefined, size |-> JS_SIZE] :
        u \in BOOLEAN }
    \cup {[utf8 |-> FALSE, parses |-> TRUE, completes |-> JsUndefined, size |-> JS_SIZE]}
    \cup { [utf8 |-> TRUE, parses |-> TRUE, completes |-> c, size |-> JS_SIZE] :
             c \in JsResults \cup {JsClock} }

NoPayload == [none |-> TRUE]

\* --------------------------------------------- what compiled guests pass
\* (ptr, len) pairs given to app_log as the level: the level, the byte that
\* is not UTF-8, and a region whose end exceeds 2^32
LevelRegions == { Region(1), Region(3), <<U32 - 1, 2>> }

\* (ptr, len) pairs given to app_log as the message: the message, the byte
\* that is not UTF-8, a region running past the end of memory, and a region
\* whose end exceeds 2^32
MessageRegions == { Region(2), Region(3), <<MemSize - 1, 2>>, <<U32 - 2, 4>> }

\* (ptr, len) pairs given to fetch as the request: the five documents, a
\* truncated document, a region past the end, a region whose end exceeds 2^32
OptionRegions ==
    { Region(4), Region(5), Region(6), Region(7), Region(8),
      <<SegAt(4), Len(Segments[4]) - 1>>,
      <<MemSize - 1, 2>>, <<U32 - 2, 4>> }

\* (ptr, capacity) pairs given to fetch for the response: the whole buffer,
\* a capacity of 10, and the largest capacity at the last 8 bytes of memory
ResponseRegions ==
    { <<RESP_AT, MemSize - RESP_AT>>, <<RESP_AT, 10>>, <<MemSize - 8, U32 - 1>> }

\* ------------------------------------------------------- the network
\* "timeout"
ERR_TIMEOUT == <<116, 105, 109, 101, 111, 117, 116>>

\* overhead of a 200 response without headers around its body:
\* {"status":200,"headers":{},"body":"","error":null}
EmptyOkJsonLen == BLen(ResponseJson(OkFetchResponse(200, <<>>, Text(<<>>))))

\* What the outbound request of a fetch call can do: fail in send(); answer
\* 200 "ok"; answer and then fail while the body is read; answer with a body so long that the
\* serialized result is exactly 2^31 bytes, or more than 2^31 bytes.
NetOutcomes ==
    { [kind |-> "send_err", e |-> ERR_TIMEOUT],
      [kind |-> "ok", status |-> 200, headers |-> <<>>,
       body |-> Text(<<111, 107>>)],
      [kind |-> "body_err"],
      [kind |-> "ok", status |-> 200, headers |-> <<>>,
       body |-> Filled(I31 - EmptyOkJsonLen)],
      [kind |-> "ok", status |-> 200, headers |-> <<>>,
       body |-> Filled(I31)] }

\* host clock readings in milliseconds since the epoch (negative: before it)
ClockReadings == {-1, 1500, 2000}

\* ------------------------------------------------------------- state
VARIABLES
    pc,              \* where the handler is: "Received", "Classified",
                     \* "Downloaded", "Instantiating", "Running",
                     \* "Responded", "Panicked"
    url,             \* ExecuteRequest.url
    code_type,       \* "none", "javascript", "webassembly"
    payload,         \* the downloaded payload
    overflow_checks, \* the build panics on integer overflow (debug profile)
    has_memory,      \* WasmCtx.memory is Some
    mem,             \* the guest's linear memory
    stdout,          \* the session's captured stdout buffer
    stderr,          \* the session's captured stderr buffer
    host_stdout,     \* lines println!-ed to the host's own stdout by the guest's calls
    response,        \* the response sent to the client
    fault_at,        \* the stage at which an error response was produced
    calls,           \* number of capability calls made by the guest
    last,            \* the last capability call and what it did
    log_calls,       \* the text of every log call that returned, in call order
    downloads,       \* number of times the payload download was started
    instantiations,  \* number of guests instantiated
    start_calls,     \* number of calls of the '_start' export
    sent,            \* number of outbound HTTP requests of fetch calls
    completion,      \* the completion value of the script's evaluation
    session,         \* concurrent sessions: stage, engine, buffers, result
    buffers,         \* every capture buffer allocated so far, by identity
    free_cores,      \* worker threads of the runtime that run no handler
    locks,           \* the Mutex of every capture buffer: its holder, or 0
    elapsed,         \* milliseconds since the engine took start_time
    metadata,        \* the ExecutionMetadata built after instantiation
    clients,         \* number of HTTP clients created for the session
    fetch_impl,      \* the fetch the linker holds: "wasm_ffis" or "execute_handler"
    prev,            \* the result of the request's first execution, once repeated
    wire             \* a fetch result on its way through serializer and decoder

vars ==
    <<pc, url, code_type, payload, overflow_checks, has_memory, mem, stdout,
      stderr, host_stdout, response, fault_at, calls, last, log_calls,
      downloads, instantiations, start_calls, sent, completion, session,
      buffers, free_cores, locks, elapsed, metadata, clients, fetch_impl,
      prev, wire>>

\* what the engines keep next to the guest
xvars == <<elapsed, metadata, clients, fetch_impl, prev>>

\* no metadata built yet
NoMetadata == ExecutionMetadata(0, "none", 0)

\* The repository holds the compiled-module fetch twice: the one
\* register_linker_functions registers, which sends with the client of the
\* WasmCtx, and the one execute_handler registers inline, which creates a
\* client for the call.  Both validate the request in the same way before
\* that point.
FetchImplementations == {"wasm_ffis", "execute_handler"}

\* HTTP clients one validated fetch call creates
ClientsPerFetch(impl) == IF impl = "execute_handler" THEN 1 ELSE 0

\* the state of the concurrent sessions
svars == <<session, buffers, free_cores, locks, wire>>

\* no outbound request was made
NoReply == [kind |-> "none"]

NoCall ==
    [fn |-> "none", outcome |-> "none", why |-> "none", ret |-> 0,
     args |-> <<>>, n |-> 0, mem_same |-> TRUE, net |-> "none",
     before |-> <<>>, reply |-> NoReply]

\* no fetch result is followed through the wire format
NoWire == [stage |-> "none", result |-> <<>>, bytes |-> <<>>, decoded |-> None]

\* a session of the concurrent model before its handler has started
NewSession(e) ==
    [stage |-> "queued", engine |-> e, core |-> FALSE, out |-> 0, err |-> 0,
     at |-> 0, stream |-> "out",
     wrote_out |-> <<>>, wrote_err |-> <<>>, ncalls |-> 0, reply |-> FALSE,
     result |-> [some |-> FALSE, v |-> <<>>]]

Sessions == 1..NSessions

\* no concurrent session is modelled
SessionsAtRest ==
    /\ session = [s \in Sessions |-> NewSession("javascript")]
    /\ buffers = <<>>
    /\ free_cores = Workers
    /\ locks = <<>>
    /\ wire = NoWire

Init ==
    /\ SessionsAtRest
    /\ completion = [t |-> "none", s |-> <<>>, n |-> 0]
    /\ elapsed = 0
    /\ metadata = NoMetadata
    /\ clients = 0
    /\ fetch_impl = "none"
    /\ prev = None
    /\ pc = "Received"
    /\ url \in Urls
    /\ code_type = "none"
    /\ payload = NoPayload
    /\ overflow_checks \in BOOLEAN
    /\ has_memory = FALSE
    /\ mem = <<>>
    /\ stdout = <<>>
    /\ stderr = <<>>
    /\ host_stdout = <<>>
    /\ response = NoResponse
    /\ fault_at = "none"
    /\ calls = 0
    /\ last = NoCall
    /\ log_calls = <<>>
    /\ downloads = 0
    /\ instantiations = 0
    /\ start_calls = 0
    /\ sent = 0

\* a handler that answers a failure with a success envelope
Fail_as_success(kind) ==
    /\ pc' = "Responded"
    /\ response' = SuccessResponse(<<>>, <<>>, <<>>,
                                   ExecutionMetadata(0, "unknown", 0))
    /\ fault_at' = pc

\* a handler that reports what the guest had written, and what was known of
\* the code, along with the error
Fail_with_output(kind) ==
    /\ pc' = "Responded"
    /\ response' = [ErrorResponse(kind) EXCEPT !.stdout = Some(stdout),
                                               !.stderr = Some(stderr),
                                               !.code_type = code_type,
                                               !.execution_time = elapsed]
    /\ fault_at' = pc

\* the handler returns Err(AppError::kind): the error envelope is sent
Fail(kind) ==
    /\ pc' = "Responded"
    /\ response' = ErrorResponse(kind)
    /\ fault_at' = pc

\* ------------------------------------------------------ execute_handler
\* a suffix test that looks for ".js" and ".wasm" anywhere in the URL
ClassifyUrl_anywhere(u) ==
    IF \E i \in 1..Len(u) : i + 2 <= Len(u) /\ SubSeq(u, i, i + 2) = SUFFIX_JS
    THEN "javascript"
    ELSE IF \E i \in 1..Len(u) :
               i + 4 <= Len(u) /\ SubSeq(u, i, i + 4) = SUFFIX_WASM
    THEN "webassembly"
    ELSE "unsupported"

\* the suffix test on the URL
ClassifyUrl(u) ==
    IF EndsWith(u, SUFFIX_JS) THEN "javascript"
    ELSE IF EndsWith(u, SUFFIX_WASM) THEN "webassembly"
    ELSE "unsupported"

\* execute_handler, up to the download: the code type is taken from the
\* URL's suffix; any other suffix is an Internal error
Classify ==
    /\ pc = "Received"
    /\ IF ClassifyUrl(url) = "unsupported"
       THEN /\ Fail("Internal")
            /\ UNCHANGED code_type
       ELSE /\ pc' = "Classified"
            /\ code_type' = ClassifyUrl(url)
            /\ UNCHANGED <<response, fault_at>>
    /\ UNCHANGED <<url, payload, overflow_checks, has_memory, mem, stdout,
                   stderr, host_stdout, calls, last, log_calls, downloads,
                   instantiations, start_calls, sent>>
    /\ UNCHANGED <<completion, svars>>
    /\ UNCHANGED xvars

\* execute_handler, the download: reqwest::get fails (Reqwest), the server
\* answers with a non-success status (Internal), reading the bytes fails
\* (Reqwest), or the payload arrives; when the client repeats a request the
\* server still holds the payload it delivered
Download ==
    /\ pc = "Classified"
    /\ downloads' = downloads + 1
    /\ \E how \in {"get_err", "bad_status", "bytes_err", "ok"} :
         CASE how = "get_err" ->
                 Fail("Reqwest") /\ UNCHANGED payload
           [] how = "bad_status" ->
                 Fail("Internal") /\ UNCHANGED payload
           [] how = "bytes_err" ->
                 Fail("Reqwest") /\ UNCHANGED payload
           [] how = "ok" ->
                 /\ pc' = "Downloaded"
                 /\ payload' \in (IF prev.some THEN {prev.v.payload}
                                  ELSE IF code_type = "javascript"
                                  THEN JsPayloads ELSE WasmPayloads)
                 /\ UNCHANGED <<response, fault_at>>
    /\ UNCHANGED <<url, code_type, overflow_checks, has_memory, mem, stdout,
                   stderr, host_stdout, calls, last, log_calls,
                   instantiations, start_calls, sent>>
    /\ UNCHANGED <<completion, svars>>
    /\ UNCHANGED xvars

\* --------------------------------------------------------- execute_wasm
\* "WASM module executed (_start)"
OUT_EXECUTED ==
    <<87, 65, 83, 77, 32, 109, 111, 100, 117, 108, 101, 32, 101, 120, 101, 99,
      117, 116, 101, 100, 32, 40, 95, 115, 116, 97, 114, 116, 41>>

\* "WASM module instantiated (no _start called or found)"
OUT_INSTANTIATED ==
    <<87, 65, 83, 77, 32, 109, 111, 100, 117, 108, 101, 32, 105, 110, 115, 116,
      97, 110, 116, 105, 97, 116, 101, 100, 32, 40, 110, 111, 32, 95, 115, 116,
      97, 114, 116, 32, 99, 97, 108, 108, 101, 100, 32, 111, 114, 32, 102, 111,
      117, 110, 100, 41>>

\* the record kept of a capability call: its arguments, what it returned,
\* the guest memory before it (m) and what the outbound request did
CallRecord(name, a, r, m, netkind, len) ==
    [fn |-> name, outcome |-> r.outcome, why |-> r.why, ret |-> r.ret,
     args |-> a, n |-> len, mem_same |-> (r.mem = m), net |-> netkind,
     before |-> m, reply |-> NoReply]

\* execute_wasm, first part: a fresh WasmCtx (no memory handle, empty
\* capture buffers), the linker with the host functions, and
\* Module::from_binary, whose failure is a Wasmtime error
WasmCompile ==
    /\ pc = "Downloaded"
    /\ code_type = "webassembly"
    /\ has_memory' = FALSE
    /\ stdout' = <<>>
    /\ stderr' = <<>>
    /\ IF payload.binary_ok
       THEN pc' = "Instantiating" /\ UNCHANGED <<response, fault_at>>
       ELSE Fail("Wasmtime")
    /\ UNCHANGED <<url, code_type, payload, overflow_checks, mem, host_stdout,
                   calls, last, log_calls, downloads, instantiations,
                   start_calls, sent>>
    /\ UNCHANGED <<completion, svars>>
    /\ elapsed' = 0
    /\ clients' = 1
    /\ fetch_impl' \in FetchImplementations
    /\ UNCHANGED <<metadata, prev>>

\* a call of app_log made by the module's start function, while
\* WasmCtx.memory is still None
StartSectionCall ==
    app_log(has_memory, InitialMemory, Region(1)[1], Region(1)[2],
            Region(2)[1], Region(2)[2], overflow_checks)

\* an instantiation that does not run the module's start function
InstantiateOk_without_start(p) == p.imports_ok

\* linker.instantiate succeeds: the imports resolve and the start function,
\* if there is one, returns
InstantiateOk(p) ==
    /\ p.imports_ok
    /\ p.start_section # "traps"
    /\ (p.start_section = "calls_app_log" => StartSectionCall.outcome = "ok")

\* an export test that looks at the name "memory" only, not at its kind
MemoryExported_by_name(p) == p.memory_export # "none"

\* instance.get_export("memory") is Some(Extern::Memory(_))
MemoryExported(p) == p.memory_export = "memory"

\* an entry-point test that looks at the name "_start" only
StartCallable_by_name(p) == p.start_export # "none"

\* instance.get_typed_func::<(), ()>(&mut store, "_start") is Ok: the export
\* exists, is a function, and takes and returns nothing
StartCallable(p) == p.start_export = "typed"

\* execute_wasm, second part: linker.instantiate (a failure is a Wasmtime
\* error), the lookup of the export "memory" (its absence is an Internal
\* error), the lookup of the typed export "_start"; without it the
\* success response is built at once
WasmInstantiate ==
    /\ pc = "Instantiating"
    /\ code_type = "webassembly"
    /\ instantiations' = instantiations + 1
    /\ last' = IF payload.imports_ok /\ payload.start_section = "calls_app_log"
               THEN CallRecord("app_log", <<Region(1), Region(2)>>,
                               StartSectionCall, InitialMemory, "none", 0)
               ELSE last
    /\ calls' = IF payload.imports_ok /\ payload.start_section = "calls_app_log"
                THEN calls + 1 ELSE calls
    /\ IF ~InstantiateOk(payload)
       THEN /\ Fail("Wasmtime")
            /\ UNCHANGED <<has_memory, mem, start_calls>>
       ELSE IF ~MemoryExported(payload)
       THEN /\ Fail("Internal")
            /\ mem' = InitialMemory
            /\ UNCHANGED <<has_memory, start_calls>>
       ELSE /\ has_memory' = TRUE
            /\ mem' = InitialMemory
            /\ IF StartCallable(payload)
               THEN /\ pc' = "Running"
                    /\ start_calls' = start_calls + 1
                    /\ UNCHANGED <<response, fault_at>>
               ELSE /\ pc' = "Responded"
                    /\ response' = SuccessResponse(OUT_INSTANTIATED, stdout,
                           stderr,
                           ExecutionMetadata(elapsed + 1, "webassembly",
                                             payload.size))
                    /\ UNCHANGED <<fault_at, start_calls>>
    /\ UNCHANGED <<url, code_type, payload, overflow_checks, stdout, stderr,
                   host_stdout, log_calls, downloads, sent>>
    /\ UNCHANGED <<completion, svars>>
    /\ elapsed' = elapsed + 1
    /\ metadata' = IF InstantiateOk(payload) /\ MemoryExported(payload)
                   THEN ExecutionMetadata(elapsed + 1, "webassembly", payload.size)
                   ELSE metadata
    /\ UNCHANGED <<clients, fetch_impl, prev>>

\* what follows a host function's return inside '_start': Ok resumes the
\* guest; Err is a trap, start_func.call fails and the handler answers with
\* a Wasmtime error; a panic unwinds out of the handler, no response is built
AfterHostCall(r) ==
    CASE r.outcome = "ok" -> UNCHANGED <<pc, response, fault_at>>
      [] r.outcome = "trap" -> Fail("Wasmtime")
      [] r.outcome = "panic" ->
             pc' = "Panicked" /\ UNCHANGED <<response, fault_at>>

WasmRunning ==
    /\ pc = "Running"
    /\ code_type = "webassembly"

\* the guest calls env.app_log
GuestAppLog ==
    /\ WasmRunning
    /\ calls < MaxCalls
    /\ \E lv \in LevelRegions, mg \in MessageRegions :
         LET r == app_log(has_memory, mem, lv[1], lv[2], mg[1], mg[2],
                          overflow_checks)
         IN  /\ AfterHostCall(r)
             /\ last' = CallRecord("app_log", <<lv, mg>>, r, mem, "none", 0)
             /\ host_stdout' = IF r.outcome = "ok"
                               THEN Append(host_stdout, r.line) ELSE host_stdout
             /\ log_calls' = IF r.outcome = "ok"
                             THEN Append(log_calls, r.line) ELSE log_calls
             /\ mem' = r.mem
    /\ calls' = calls + 1
    /\ UNCHANGED <<url, code_type, payload, overflow_checks, has_memory,
                   stdout, stderr, downloads, instantiations, start_calls, sent>>
    /\ UNCHANGED <<completion, svars>>
    /\ elapsed' = elapsed + 1
    /\ UNCHANGED <<metadata, clients, fetch_impl, prev>>

\* the guest calls env.get_unixtime
GuestGetUnixtime ==
    /\ WasmRunning
    /\ calls < MaxCalls
    /\ \E t \in ClockReadings :
         LET r == get_unixtime(t, mem)
         IN  /\ AfterHostCall(r)
             /\ last' = CallRecord("get_unixtime", <<t>>, r, mem, "none", 0)
    /\ calls' = calls + 1
    /\ UNCHANGED <<url, code_type, payload, overflow_checks, has_memory, mem,
                   stdout, stderr, host_stdout, log_calls, downloads,
                   instantiations, start_calls, sent>>
    /\ UNCHANGED <<completion, svars>>
    /\ elapsed' = elapsed + 1
    /\ UNCHANGED <<metadata, clients, fetch_impl, prev>>

\* length of the serialized result a fetch call has to hand over
SerializedLen(net) ==
    CASE net.kind = "send_err" -> BLen(ResponseJson(ErrorFetchResponse(net.e)))
      [] net.kind = "ok" ->
             BLen(ResponseJson(OkFetchResponse(net.status, net.headers, net.body)))
      [] OTHER -> 0

\* the serialized result a fetch call has to hand over
SerializedDoc(net) ==
    CASE net.kind = "send_err" -> ResponseJson(ErrorFetchResponse(net.e))
      [] net.kind = "ok" ->
             ResponseJson(OkFetchResponse(net.status, net.headers, net.body))

\* the guest calls env.fetch
GuestFetch ==
    /\ WasmRunning
    /\ calls < MaxCalls
    /\ \E op \in OptionRegions, rs \in ResponseRegions, net \in NetOutcomes :
         LET r == fetch(has_memory, mem, op[1], op[2], rs[1], rs[2], net,
                        overflow_checks)
         IN  /\ AfterHostCall(r)
             /\ last' = [CallRecord("fetch", <<op, rs>>, r, mem,
                                    IF r.sent = 1 THEN net.kind ELSE "none",
                                    IF r.sent = 1 THEN SerializedLen(net) ELSE 0)
                           EXCEPT !.reply = IF r.sent = 1 THEN net ELSE NoReply]
             /\ mem' = r.mem
             /\ sent' = sent + r.sent
             /\ clients' = clients + r.sent * ClientsPerFetch(fetch_impl)
    /\ calls' = calls + 1
    /\ UNCHANGED <<url, code_type, payload, overflow_checks, has_memory,
                   stdout, stderr, host_stdout, log_calls, downloads,
                   instantiations, start_calls>>
    /\ UNCHANGED <<completion, svars>>
    /\ elapsed' = elapsed + 1
    /\ UNCHANGED <<metadata, fetch_impl, prev>>

\* metadata that keeps the time measured before '_start' was called
TotalTime_stale(md, total_execution_time) == md

\* ExecutionMetadata { execution_time: total_execution_time, ..metadata }
TotalTime(md, total_execution_time) ==
    [md EXCEPT !.execution_time = total_execution_time]

\* '_start' returns: the timer is read, the capture buffers are read and
\* the success response is built
GuestReturn ==
    /\ WasmRunning
    /\ pc' = "Responded"
    /\ response' = SuccessResponse(OUT_EXECUTED, stdout, stderr,
                                   TotalTime(metadata, elapsed))
    /\ UNCHANGED <<url, code_type, payload, overflow_checks, has_memory, mem,
                   stdout, stderr, host_stdout, fault_at, calls, last,
                   log_calls, downloads, instantiations, start_calls, sent>>
    /\ UNCHANGED <<completion, svars>>
    /\ UNCHANGED xvars

\* the guest traps by itself (unreachable, division by zero, ...)
GuestTrap ==
    /\ WasmRunning
    /\ Fail("Wasmtime")
    /\ UNCHANGED <<url, code_type, payload, overflow_checks, has_memory, mem,
                   stdout, stderr, host_stdout, calls, last, log_calls,
                   downloads, instantiations, start_calls, sent>>
    /\ UNCHANGED <<completion, svars>>
    /\ UNCHANGED xvars

\* ----------------------------------------------------------- execute_js
\* ToBoolean, as used by `||`
Truthy(v) ==
    CASE v.t = "string" -> v.s # <<>>
      [] v.t = "int"    -> v.n # 0
      [] v.t = "float"  -> v.n # 0
      [] v.t = "bool"   -> v.n = 1
      [] v.t = "object" -> TRUE
      [] OTHER          -> FALSE

\* String(v) and string concatenation: "undefined", "null", "true",
\* "false", the decimal digits, "[object Object]"
JsToString(v) ==
    CASE v.t = "string"    -> v.s
      [] v.t = "int"       -> IF v.n < 0 THEN <<45>> \o Decimal(-v.n)
                              ELSE Decimal(v.n)
      [] v.t = "float"     -> Decimal(v.n \div 10) \o <<46>> \o Decimal(v.n % 10)
      [] v.t = "bool"      -> IF v.n = 1 THEN <<116, 114, 117, 101>>
                              ELSE <<102, 97, 108, 115, 101>>
      [] v.t = "undefined" -> <<117, 110, 100, 101, 102, 105, 110, 101, 100>>
      [] v.t = "null"      -> <<110, 117, 108, 108>>
      [] v.t = "object"    -> <<91, 111, 98, 106, 101, 99, 116, 32, 79, 98, 106,
                                101, 99, 116, 93>>

\* one argument of console.log / console.error:
\* typeof arg === 'object' ? JSON.stringify(arg) : String(arg)
ConsoleArg(v) ==
    CASE v.t = "object" -> <<123, 125>>
      [] v.t = "null"   -> <<110, 117, 108, 108>>
      [] OTHER          -> JsToString(v)

RECURSIVE JoinFrom(_, _)
JoinFrom(args, i) ==
    IF i > Len(args) THEN <<>>
    ELSE (IF i > 1 THEN <<32>> ELSE <<>>) \o ConsoleArg(args[i])
         \o JoinFrom(args, i + 1)

\* args.map(...).join(' ')
ConsoleMessage(args) == JoinFrom(args, 1)

\* a capture that appends the line to the buffer twice
Capture_twice(buffer, message) == buffer \o message \o <<10>> \o message \o <<10>>

\* a capture that leaves out the line feed
Capture_no_newline(buffer, message) == buffer \o message

\* __internal_capture_stdout / __internal_capture_stderr:
\* buffer.push_str(&message); buffer.push('\n')
Capture(buffer, message) == buffer \o message \o <<10>>

\* app_log(level, message) of the scripted guest:
\* console.log("[JS LOG - " + (level || 'INFO').toUpperCase() + "]: "
\*             + (message || ''))
\* toUpperCase exists on strings only: a truthy level of another type
\* throws a TypeError
JsAppLogThrows(level) == Truthy(level) /\ level.t # "string"

JsAppLogText(level, message) ==
    <<91, 74, 83, 32, 76, 79, 71, 32, 45, 32>>
    \o to_uppercase(IF Truthy(level) THEN level.s ELSE <<73, 78, 70, 79>>)
    \o <<93, 58, 32>>
    \o (IF Truthy(message) THEN JsToString(message) ELSE <<>>)

\* a conversion that serializes a non-primitive value
JsOutput_serialized(v) ==
    IF v.t = "object" THEN <<123, 125>> ELSE JsToString(v)

\* the conversion of the script's completion value to the output text
\* "Execution resulted in a non-primitive type: Object" for the rest
JsOutput(v) ==
    CASE v.t \in {"string", "int", "float", "bool", "null", "undefined"} ->
             JsToString(v)
      [] OTHER ->
           <<69, 120, 101, 99, 117, 116, 105, 111, 110, 32, 114, 101, 115, 117,
             108, 116, 101, 100, 32, 105, 110, 32, 97, 32, 110, 111, 110, 45,
             112, 114, 105, 109, 105, 116, 105, 118, 101, 32, 116, 121, 112,
             101, 58, 32, 79, 98, 106, 101, 99, 116>>

\* levels and messages scripts pass to app_log: nothing, "info", "INFO",
\* the empty string and 7 as levels; nothing, "hello", "hi" and 0 as messages
JsLevels ==
    {JsUndefined, JsString(<<105, 110, 102, 111>>), JsString(<<73, 78, 70, 79>>),
     JsString(<<>>), JsInt(7)}
JsMessages ==
    {JsUndefined, JsString(<<104, 101, 108, 108, 111>>), JsString(<<104, 105>>),
     JsInt(0)}

\* argument lists scripts pass to console.log and console.error
JsConsoleArgs ==
    { <<>>, <<JsString(<<104, 105>>)>>, <<JsString(<<104, 105>>), JsInt(7)>>,
      <<JsNull, JsObject>> }

JsRecord(name, a, out) ==
    [fn |-> name, outcome |-> out, why |-> "none", ret |-> 0, args |-> a,
     n |-> 0, mem_same |-> TRUE, net |-> "none", before |-> <<>>,
     reply |-> NoReply]

\* execute_js, first part: the payload must be UTF-8 (else an Internal
\* error); the runtime, the context and two empty capture buffers are made
JsSetup ==
    /\ pc = "Downloaded"
    /\ code_type = "javascript"
    /\ stdout' = <<>>
    /\ stderr' = <<>>
    /\ IF payload.utf8
       THEN pc' = "Instantiating" /\ UNCHANGED <<response, fault_at>>
       ELSE Fail("Internal")
    /\ UNCHANGED <<url, code_type, payload, overflow_checks, has_memory, mem,
                   host_stdout, calls, last, log_calls, downloads,
                   instantiations, start_calls, sent>>
    /\ UNCHANGED <<completion, svars>>
    /\ elapsed' = 0
    /\ UNCHANGED <<metadata, clients, fetch_impl, prev>>

\* execute_js, second part: register_to_globals_with_capture installs
\* console.log, console.error, app_log, get_unixtime and fetch, then
\* ctx.eval compiles the script; a script that does not parse is a QuickJs
\* error
JsInstantiate ==
    /\ pc = "Instantiating"
    /\ code_type = "javascript"
    /\ instantiations' = instantiations + 1
    /\ IF payload.parses
       THEN pc' = "Running" /\ UNCHANGED <<response, fault_at>>
       ELSE Fail("QuickJs")
    /\ UNCHANGED <<url, code_type, payload, overflow_checks, has_memory, mem,
                   stdout, stderr, host_stdout, calls, last, log_calls,
                   downloads, start_calls, sent>>
    /\ UNCHANGED <<completion, svars>>
    /\ elapsed' = elapsed + 1
    /\ UNCHANGED <<metadata, clients, fetch_impl, prev>>

JsRunning ==
    /\ pc = "Running"
    /\ code_type = "javascript"

\* an exception raised inside a call: the script catches it and goes on, or
\* it leaves ctx.eval as a QuickJs error
JsThrown(caught) ==
    IF caught THEN UNCHANGED <<pc, response, fault_at>> ELSE Fail("QuickJs")

\* the script calls app_log(level, message)
JsAppLog ==
    /\ JsRunning
    /\ calls < MaxCalls
    /\ \E level \in JsLevels, message \in JsMessages, caught \in BOOLEAN :
         IF JsAppLogThrows(level)
         THEN /\ JsThrown(caught)
              /\ last' = JsRecord("js_app_log", <<level, message>>, "throw")
              /\ UNCHANGED <<stdout, host_stdout, log_calls>>
         ELSE /\ caught
              /\ stdout' = Capture(stdout, JsAppLogText(level, message))
              /\ host_stdout' = Append(host_stdout, JsAppLogText(level, message))
              /\ log_calls' = Append(log_calls, JsAppLogText(level, message))
              /\ last' = JsRecord("js_app_log", <<level, message>>, "ok")
              /\ UNCHANGED <<pc, response, fault_at>>
    /\ calls' = calls + 1
    /\ UNCHANGED <<url, code_type, payload, overflow_checks, has_memory, mem,
                   stderr, downloads, instantiations, start_calls, sent>>
    /\ UNCHANGED <<completion, svars>>
    /\ elapsed' = elapsed + 1
    /\ UNCHANGED <<metadata, clients, fetch_impl, prev>>

\* the script calls console.log(...args)
JsConsoleLog ==
    /\ JsRunning
    /\ calls < MaxCalls
    /\ \E args \in JsConsoleArgs :
         /\ stdout' = Capture(stdout, ConsoleMessage(args))
         /\ host_stdout' = Append(host_stdout, ConsoleMessage(args))
         /\ log_calls' = Append(log_calls, ConsoleMessage(args))
         /\ last' = JsRecord("console.log", args, "ok")
    /\ calls' = calls + 1
    /\ UNCHANGED <<pc, url, code_type, payload, overflow_checks, has_memory,
                   mem, stderr, response, fault_at, downloads, instantiations,
                   start_calls, sent>>
    /\ UNCHANGED <<completion, svars>>
    /\ elapsed' = elapsed + 1
    /\ UNCHANGED <<metadata, clients, fetch_impl, prev>>

\* the script calls console.error(...args)
JsConsoleError ==
    /\ JsRunning
    /\ calls < MaxCalls
    /\ \E args \in JsConsoleArgs :
         /\ stderr' = Capture(stderr, ConsoleMessage(args))
         /\ last' = JsRecord("console.error", args, "ok")
    /\ calls' = calls + 1
    /\ UNCHANGED <<pc, url, code_type, payload, overflow_checks, has_memory,
                   mem, stdout, host_stdout, response, fault_at, log_calls,
                   downloads, instantiations, start_calls, sent>>
    /\ UNCHANGED <<completion, svars>>
    /\ elapsed' = elapsed + 1
    /\ UNCHANGED <<metadata, clients, fetch_impl, prev>>

\* the script calls get_unixtime(): Date.now() / 1000
JsGetUnixtime ==
    /\ JsRunning
    /\ calls < MaxCalls
    /\ \E t \in ClockReadings :
         last' = [JsRecord("js_get_unixtime", <<t>>, "ok") EXCEPT
                     !.ret = t \div 1000, !.n = t % 1000]
    /\ calls' = calls + 1
    /\ UNCHANGED <<pc, url, code_type, payload, overflow_checks, has_memory,
                   mem, stdout, stderr, host_stdout, response, fault_at,
                   log_calls, downloads, instantiations, start_calls, sent>>
    /\ UNCHANGED <<completion, svars>>
    /\ elapsed' = elapsed + 1
    /\ UNCHANGED <<metadata, clients, fetch_impl, prev>>

\* an object whose `url` property is an accessor that throws
JsUrlThrows == [t |-> "object", s |-> <<>>, n |-> 1]

\* what scripts pass to fetch: nothing, null, an object with a url, and an
\* object whose url cannot be read
JsFetchOptions == {JsUndefined, JsNull, JsObject, JsUrlThrows}

\* a fetch that sends a request before it throws
js_fetch_sends(options) ==
    [outcome |-> "throw", thrown |-> "FETCH_NOT_IMPLEMENTED", sent |-> 1]

\* fetch(options) of the scripted variant: the object to throw is built
\* first, and building it evaluates `options && options.url`, which reads
\* the property of a truthy options value; a read that throws ends the call
\* with its own exception.  Nothing is sent in either case
js_fetch(options) ==
    IF Truthy(options) /\ options = JsUrlThrows
    THEN [outcome |-> "throw", thrown |-> "exception of the accessor", sent |-> 0]
    ELSE [outcome |-> "throw", thrown |-> "FETCH_NOT_IMPLEMENTED", sent |-> 0]

\* the script calls fetch(options)
JsFetch ==
    /\ JsRunning
    /\ calls < MaxCalls
    /\ \E caught \in BOOLEAN : JsThrown(caught)
    /\ \E options \in JsFetchOptions :
         LET r == js_fetch(options)
         IN  /\ last' = [JsRecord("js_fetch", <<options>>, r.outcome)
                           EXCEPT !.why = r.thrown]
             /\ sent' = sent + r.sent
    /\ calls' = calls + 1
    /\ UNCHANGED <<url, code_type, payload, overflow_checks, has_memory, mem,
                   stdout, stderr, host_stdout, log_calls, downloads,
                   instantiations, start_calls>>
    /\ UNCHANGED <<completion, svars>>
    /\ elapsed' = elapsed + 1
    /\ UNCHANGED <<metadata, clients, fetch_impl, prev>>

\* the script throws and does not catch
JsThrow ==
    /\ JsRunning
    /\ Fail("QuickJs")
    /\ UNCHANGED <<url, code_type, payload, overflow_checks, has_memory, mem,
                   stdout, stderr, host_stdout, calls, last, log_calls,
                   downloads, instantiations, start_calls, sent>>
    /\ UNCHANGED <<completion, svars>>
    /\ UNCHANGED xvars

\* the values the evaluation of a script can complete with: the value its
\* text fixes, or what get_unixtime() returns at the time of the call
Completions(p) ==
    IF p.completes = JsClock
    THEN {ClockValue(t) : t \in {r \in ClockReadings : r >= 0}}
    ELSE {p.completes}

\* top-level evaluation completes with a value: the value is converted, the
\* timer is read, the capture buffers are read and the success response is
\* built
JsReturn ==
    /\ JsRunning
    /\ \E v \in Completions(payload) :
         /\ completion' = v
         /\ response' = SuccessResponse(JsOutput(v), stdout, stderr,
                              ExecutionMetadata(elapsed, "javascript",
                                                payload.size))
    /\ pc' = "Responded"
    /\ UNCHANGED <<url, code_type, payload, overflow_checks, has_memory, mem,
                   stdout, stderr, host_stdout, fault_at, calls, last,
                   log_calls, downloads, instantiations, start_calls, sent>>
    /\ UNCHANGED svars
    /\ UNCHANGED xvars

\* ------------------------------------------------- concurrent sessions
\* The host serves several requests at once.  Each request's handler runs
\* its engine call (execute_js, execute_wasm) synchronously on a worker
\* thread of the runtime; the only point where it waits for something
\* outside the guest is the HTTP operation of a module's fetch.

\* the state of the single request followed above
reqvars ==
    <<pc, url, code_type, payload, overflow_checks, has_memory, mem, stdout,
      stderr, host_stdout, response, fault_at, calls, last, log_calls,
      downloads, instantiations, start_calls, sent, completion, elapsed,
      metadata, clients, fetch_impl, prev, wire>>

\* the same without the wire
reqvars_but_wire ==
    <<pc, url, code_type, payload, overflow_checks, has_memory, mem, stdout,
      stderr, host_stdout, response, fault_at, calls, last, log_calls,
      downloads, instantiations, start_calls, sent, completion, elapsed,
      metadata, clients, fetch_impl, prev>>

\* the single request is not followed
RequestAtRest ==
    /\ pc = "Received"
    /\ url = <<>>
    /\ code_type = "none"
    /\ payload = NoPayload
    /\ overflow_checks = FALSE
    /\ has_memory = FALSE
    /\ mem = <<>>
    /\ stdout = <<>>
    /\ stderr = <<>>
    /\ host_stdout = <<>>
    /\ response = NoResponse
    /\ fault_at = "none"
    /\ calls = 0
    /\ last = NoCall
    /\ log_calls = <<>>
    /\ downloads = 0
    /\ instantiations = 0
    /\ start_calls = 0
    /\ sent = 0
    /\ completion = NoValue
    /\ elapsed = 0
    /\ metadata = NoMetadata
    /\ clients = 0
    /\ fetch_impl = "none"
    /\ prev = None

SessionsInit ==
    /\ RequestAtRest
    /\ session \in [Sessions -> {NewSession("javascript"), NewSession("webassembly")}]
    /\ buffers = <<>>
    /\ free_cores = Workers
    /\ locks = <<>>
    /\ wire = NoWire

\* the text a session's guest writes: "s1", "s2", ...
Tag(s) == <<115, 48 + s>>

\* buffers handed out from one shared pair, whatever is already allocated
NewBuffers_shared(allocated) == <<1, 2>>

\* Arc::new(Mutex::new(String::new())), twice: the stdout and the stderr
\* buffer of a session are two allocations no one else holds
NewBuffers(allocated) == <<Len(allocated) + 1, Len(allocated) + 2>>

\* a fetch that keeps its worker thread while it waits
HandsOffCore_never(holds_core) == FALSE

\* tokio::task::block_in_place: a worker thread that is about to block hands
\* its core to another thread, which goes on running the other tasks
HandsOffCore(holds_core) == holds_core

\* the handler of request s starts on a free worker thread and calls its
\* engine, which creates the session's capture buffers (and, for a module,
\* the WasmCtx and the Store that own them)
SessionBegin ==
    /\ \E s \in Sessions :
         /\ session[s].stage = "queued"
         /\ free_cores > 0
         /\ LET ids == NewBuffers(buffers)
            IN  /\ session' = [session EXCEPT ![s].stage = "running",
                                              ![s].core = TRUE,
                                              ![s].out = ids[1],
                                              ![s].err = ids[2]]
                /\ buffers' = IF Len(buffers) >= ids[2] THEN buffers
                              ELSE buffers \o << <<>>, <<>> >>
                /\ locks' = IF Len(locks) >= ids[2] THEN locks
                            ELSE locks \o <<0, 0>>
         /\ free_cores' = free_cores - 1
    /\ UNCHANGED reqvars

\* the guest of session s writes its tag: a script through console.log or
\* console.error, which append to the session's buffers; a module through
\* app_log, which prints to the host's standard output only
SessionWrite ==
    /\ \E s \in Sessions, stream \in {"out", "err"} :
         /\ session[s].stage = "running"
         /\ session[s].at = 0
         /\ session[s].ncalls < MaxSessionCalls
         /\ IF session[s].engine = "javascript"
            THEN IF stream = "out"
                 THEN /\ buffers' = [buffers EXCEPT ![session[s].out] =
                                                       Capture(@, Tag(s))]
                      /\ session' = [session EXCEPT
                             ![s].ncalls = @ + 1,
                             ![s].wrote_out = Append(@, Tag(s))]
                 ELSE /\ buffers' = [buffers EXCEPT ![session[s].err] =
                                                       Capture(@, Tag(s))]
                      /\ session' = [session EXCEPT
                             ![s].ncalls = @ + 1,
                             ![s].wrote_err = Append(@, Tag(s))]
            ELSE /\ stream = "out"
                 /\ session' = [session EXCEPT ![s].ncalls = @ + 1]
                 /\ UNCHANGED buffers
    /\ UNCHANGED <<free_cores, locks, reqvars>>

\* the module of session s calls fetch: the request is sent and the calling
\* thread blocks on it inside block_in_place
SessionFetchBegin ==
    /\ \E s \in Sessions :
         /\ session[s].stage = "running"
         /\ session[s].engine = "webassembly"
         /\ session[s].ncalls < MaxSessionCalls
         /\ LET off == HandsOffCore(session[s].core)
            IN  /\ session' = [session EXCEPT ![s].stage = "fetching",
                                              ![s].ncalls = @ + 1,
                                              ![s].reply = FALSE,
                                              ![s].core = @ /\ ~off]
                /\ free_cores' = IF off THEN free_cores + 1 ELSE free_cores
    /\ UNCHANGED <<buffers, locks, reqvars>>

\* the HTTP operation of session s's fetch completes, with a response or
\* with an error
NetReply ==
    /\ \E s \in Sessions :
         /\ session[s].stage = "fetching"
         /\ ~session[s].reply
         /\ session' = [session EXCEPT ![s].reply = TRUE]
    /\ UNCHANGED <<buffers, free_cores, locks, reqvars>>

\* block_on returns the result of the HTTP operation and the guest of
\* session s resumes on the thread that waited
SessionFetchEnd ==
    /\ \E s \in Sessions :
         /\ session[s].stage = "fetching"
         /\ session[s].reply
         /\ session' = [session EXCEPT ![s].stage = "running",
                                       ![s].reply = FALSE]
    /\ UNCHANGED <<buffers, free_cores, locks, reqvars>>

\* the guest of session s ends: the engine reads the session's two buffers
\* into the result and the handler gives its worker thread back
SessionEnd ==
    /\ \E s \in Sessions :
         /\ session[s].stage = "running"
         /\ session[s].at = 0
         /\ session' = [session EXCEPT
                ![s].stage = "done",
                ![s].core = FALSE,
                ![s].result = Some(<<buffers[session[s].out],
                                     buffers[session[s].err]>>)]
         /\ free_cores' = IF session[s].core THEN free_cores + 1
                          ELSE free_cores
    /\ UNCHANGED <<buffers, locks, reqvars>>

SessionsNext ==
    \/ SessionBegin
    \/ SessionWrite
    \/ SessionFetchBegin
    \/ NetReply
    \/ SessionFetchEnd
    \/ SessionEnd

SessionsSpec == SessionsInit /\ [][SessionsNext]_vars

\* every handler that can take a step takes one; nothing makes the HTTP
\* operation of a fetch complete
SessionsFair ==
    /\ SessionsInit
    /\ [][SessionsNext]_vars
    /\ WF_vars(SessionBegin)
    /\ WF_vars(SessionWrite \/ SessionFetchBegin \/ SessionFetchEnd \/ SessionEnd)

\* ------------------------------------ the capture functions, step by step
\* a capture function that takes the lock before it prints
CaptureSteps_lock_first == <<"lock", "println", "push_str", "push", "unlock">>

\* The body of __internal_capture_stdout and __internal_capture_stderr in
\* program order: the print to the host's own stream, the lock on the
\* buffer, push_str(&message), push('\n'), and the end of the `if let`
\* block, where the guard is dropped
CaptureSteps == <<"println", "lock", "push_str", "push", "unlock">>

\* the buffer the capture function called by session s works on
Target(s) ==
    IF session[s].stream = "out" THEN session[s].out ELSE session[s].err

\* the script of session s calls console.log or console.error with its tag:
\* the arguments are joined and the capture function is entered
SessionCall ==
    /\ \E s \in Sessions, stream \in {"out", "err"} :
         /\ session[s].stage = "running"
         /\ session[s].engine = "javascript"
         /\ session[s].at = 0
         /\ session[s].ncalls < MaxSessionCalls
         /\ session' = [session EXCEPT ![s].at = 1,
                                       ![s].stream = stream,
                                       ![s].ncalls = @ + 1]
    /\ UNCHANGED <<buffers, free_cores, locks, reqvars>>

\* the capture function called by session s does its next step; lock()
\* waits until the Mutex is free; after the last step the function returns
SessionCapture ==
    /\ \E s \in Sessions :
         /\ session[s].at > 0
         /\ LET op == CaptureSteps[session[s].at]
                b  == Target(s)
                returns == session[s].at = Len(CaptureSteps)
            IN  /\ CASE op = "println" -> UNCHANGED <<buffers, locks>>
                     [] op = "lock" ->
                            /\ locks[b] = 0
                            /\ locks' = [locks EXCEPT ![b] = s]
                            /\ UNCHANGED buffers
                     [] op = "push_str" ->
                            /\ buffers' = [buffers EXCEPT ![b] = @ \o Tag(s)]
                            /\ UNCHANGED locks
                     [] op = "push" ->
                            /\ buffers' = [buffers EXCEPT ![b] = @ \o <<10>>]
                            /\ UNCHANGED locks
                     [] op = "unlock" ->
                            /\ locks' = [locks EXCEPT ![b] = 0]
                            /\ UNCHANGED buffers
                /\ session' = [session EXCEPT
                       ![s].at = IF returns THEN 0 ELSE @ + 1,
                       ![s].wrote_out =
                           IF returns /\ session[s].stream = "out"
                           THEN Append(@, Tag(s)) ELSE @,
                       ![s].wrote_err =
                           IF returns /\ session[s].stream = "err"
                           THEN Append(@, Tag(s)) ELSE @]
    /\ UNCHANGED <<free_cores, reqvars>>

CaptureNext ==
    \/ SessionBegin
    \/ SessionCall
    \/ SessionCapture
    \/ SessionFetchBegin
    \/ NetReply
    \/ SessionFetchEnd
    \/ SessionEnd

\* the sessions with their capture calls taken step by step
CaptureSpec == SessionsInit /\ [][CaptureNext]_vars

\* ------------------------------------------- the wire format, on its own
WireInit ==
    /\ RequestAtRest
    /\ session = [s \in Sessions |-> NewSession("javascript")]
    /\ buffers = <<>>
    /\ free_cores = Workers
    /\ locks = <<>>
    /\ wire \in { [stage |-> "built", result |-> r, bytes |-> <<>>,
                   decoded |-> None] : r \in WireResults }

\* serde_json::to_vec(&wasm_response)
Serialize ==
    /\ wire.stage = "built"
    /\ wire' = [wire EXCEPT !.stage = "serialized",
                            !.bytes = Flat(ResponseJson(wire.result))]
    /\ UNCHANGED <<session, buffers, free_cores, locks, reqvars_but_wire>>

\* the guest decodes the bytes it was handed
Deserialize ==
    /\ wire.stage = "serialized"
    /\ wire' = [wire EXCEPT !.stage = "decoded",
                            !.decoded = DecodeResponse(wire.bytes)]
    /\ UNCHANGED <<session, buffers, free_cores, locks, reqvars_but_wire>>

WireNext == Serialize \/ Deserialize

WireSpec == WireInit /\ [][WireNext]_vars

Next ==
    \/ Classify
    \/ Download
    \/ WasmCompile
    \/ WasmInstantiate
    \/ GuestAppLog
    \/ GuestGetUnixtime
    \/ GuestFetch
    \/ GuestReturn
    \/ GuestTrap
    \/ JsSetup
    \/ JsInstantiate
    \/ JsAppLog
    \/ JsConsoleLog
    \/ JsConsoleError
    \/ JsGetUnixtime
    \/ JsFetch
    \/ JsThrow
    \/ JsReturn

Spec == Init /\ [][Next]_vars

\* ------------------------------------------------- the same URL, twice
\* The client, having got a result, sends the same URL once more: a new
\* request starts from scratch in the same process (nothing of the first
\* execution is kept by the host; `prev` is the client's record of the first
\* result), and the payload behind the URL has not changed.
ExecuteAgain ==
    /\ pc = "Responded"
    /\ response.status = "success"
    /\ ~prev.some
    /\ prev' = Some([output |-> response.output,
                     resource_size |-> response.resource_size,
                     payload |-> payload])
    /\ pc' = "Received"
    /\ code_type' = "none"
    /\ payload' = NoPayload
    /\ has_memory' = FALSE
    /\ mem' = <<>>
    /\ stdout' = <<>>
    /\ stderr' = <<>>
    /\ host_stdout' = <<>>
    /\ response' = NoResponse
    /\ fault_at' = "none"
    /\ calls' = 0
    /\ last' = NoCall
    /\ log_calls' = <<>>
    /\ downloads' = 0
    /\ instantiations' = 0
    /\ start_calls' = 0
    /\ sent' = 0
    /\ completion' = NoValue
    /\ elapsed' = 0
    /\ metadata' = NoMetadata
    /\ clients' = 0
    /\ fetch_impl' = "none"
    /\ UNCHANGED <<url, overflow_checks, svars>>

TwiceNext == Next \/ ExecuteAgain

TwiceSpec == Init /\ [][TwiceNext]_vars

\* ------------------------------------------------------------ properties
\* the last capability call was a fetch of a compiled guest whose outbound
\* request was sent and gave a result to serialize
FetchSerialized ==
    /\ last.fn = "fetch"
    /\ last.net \in {"send_err", "ok"}

\* the whole zeroed response buffer, as a (ptr, capacity) pair
FullBuffer == <<RESP_AT, MemSize - RESP_AT>>

RECURSIVE LinesFrom(_, _)
LinesFrom(lines, i) ==
    IF i > Len(lines) THEN <<>>
    ELSE lines[i] \o <<10>> \o LinesFrom(lines, i + 1)

\* the text made of the given lines, each followed by a line feed
Lines(lines) == LinesFrom(lines, 1)

\* s occurs in t
Occurs(s, t) ==
    \E k \in 0..Len(t) : k + Len(s) <= Len(t) /\ SubSeq(t, k + 1, k + Len(s)) = s

\* C1: a fetch call whose serialized result is n bytes long, with n greater
\* than the declared capacity, returns exactly -n and leaves every byte of
\* guest memory as it was.
C1_NegativeSizeNoWrite ==
    (FetchSerialized /\ last.n > last.args[2][2])
        => (last.outcome = "ok" /\ last.ret = -last.n /\ last.mem_same)

\* C2: an app_log or fetch call naming a region whose end ptr + len, taken
\* without wrap-around, lies beyond the guest memory is rejected (the call
\* fails, nothing is read or written); the host does not crash instead.
C2_OutOfRangeRejected ==
    /\ (last.fn = "app_log" /\ has_memory
        /\ \E i \in 1..2 : last.args[i][1] + last.args[i][2] > MemSize)
          => (last.outcome = "trap" /\ last.mem_same)
    /\ (last.fn = "fetch" /\ has_memory
        /\ last.args[1][1] + last.args[1][2] > MemSize)
          => (last.outcome = "trap" /\ last.mem_same)

\* C3: a request whose URL ends in neither ".js" nor ".wasm" is answered
\* with an Internal error; the download is never started and no guest is
\* ever instantiated for it.
C3_UnsupportedSuffixRejectedFirst ==
    (~EndsWith(url, SUFFIX_JS) /\ ~EndsWith(url, SUFFIX_WASM))
        => /\ downloads = 0
           /\ instantiations = 0
           /\ pc \in {"Received", "Responded"}
           /\ (pc = "Responded"
                 => response.status = "error" /\ response.code = "INTERNAL_ERROR")

\* the URL "a.js?v=1" has been rejected
C3_Witness ==
    /\ url = <<97, 46, 106, 115, 63, 118, 61, 49>>
    /\ pc = "Responded"
    /\ response.code = "INTERNAL_ERROR"
    /\ downloads = 0

\* a valid module without an export of a memory named "memory" has been
\* answered
NoMemoryAnswered ==
    /\ code_type = "webassembly"
    /\ pc = "Responded"
    /\ fault_at # "Classified"
    /\ payload.binary_ok
    /\ payload.memory_export # "memory"

\* C4 as stated: every valid module that does not export a memory named
\* "memory" ends with an Internal error (INTERNAL_ERROR) and its '_start' is
\* never called, whatever else it imports or exports.
C4_NoMemoryIsInternalError ==
    NoMemoryAnswered
        => (response.code = "INTERNAL_ERROR" /\ start_calls = 0)

\* C4 amended: every valid module that does not export a memory named
\* "memory" ends with an error and its '_start' is never called; the error
\* is the Internal error when linking and instantiation succeed, and the
\* Wasmtime error (WEBASSEMBLY_EXECUTION_ERROR) when an import does not
\* resolve or the module's start function fails.
C4_NoMemoryIsAnError ==
    NoMemoryAnswered
        => /\ response.status = "error"
           /\ start_calls = 0
           /\ response.code =
                 IF payload.imports_ok /\ payload.start_section = "none"
                 THEN "INTERNAL_ERROR" ELSE "WEBASSEMBLY_EXECUTION_ERROR"

\* a module that links, exports '_start' and exports a "memory" that is not
\* a memory has been answered with the Internal error
C4_Witness ==
    /\ NoMemoryAnswered
    /\ payload.imports_ok
    /\ payload.start_section = "none"
    /\ payload.start_export = "typed"
    /\ payload.memory_export = "not_memory"
    /\ response.code = "INTERNAL_ERROR"

\* C5: within one session the captured stdout holds exactly one line per
\* log call (app_log or console.log of a script, app_log of a module), in
\* the order of the calls, none lost, duplicated or reordered.
C5_StdoutIsTheLogCalls == stdout = Lines(log_calls)

\* C6: the stdout field of the result returned after '_start' contains the
\* text of every app_log call the module made with valid arguments.
C6_ModuleLogsInResult ==
    (pc = "Responded" /\ response.status = "success"
     /\ response.code_type = "webassembly")
        => \A i \in 1..Len(log_calls) : Occurs(log_calls[i], response.stdout.v)

\* a script whose only output was app_log("INFO", "hello") has completed
HelloScriptAnswered ==
    /\ pc = "Responded"
    /\ response.status = "success"
    /\ response.code_type = "javascript"
    /\ calls = 1
    /\ last.fn = "js_app_log"
    /\ last.args = <<JsString(<<73, 78, 70, 79>>),
                     JsString(<<104, 101, 108, 108, 111>>)>>

C8_TransportFailureReachesGuest ==
    (last.fn = "fetch" /\ last.net \in {"send_err", "body_err"}
     /\ last.args[2] = FullBuffer)
        => /\ last.outcome = "ok"
           /\ last.ret > 0
           /\ SubSeq(mem, RESP_AT + 1, RESP_AT + 11)
                 = <<123, 34, 115, 116, 97, 116, 117, 115, 34, 58, 48>>

\* C9: a fetch call whose request carries an unparseable method or an
\* invalid header name or value returns to the guest; it does not trap and
\* the invocation is not aborted.
C9_InvalidRequestReturned ==
    (last.fn = "fetch" /\ has_memory
     /\ last.args[1] \in {Region(6), Region(7), Region(8)})
        => (last.outcome = "ok" /\ response.status # "error")

\* C10: an app_log call of a module whose level or message bytes are not
\* valid UTF-8 fails that call only: '_start' is not aborted by it.
C10_BadUtf8DoesNotAbort ==
    (last.fn = "app_log" /\ has_memory
     /\ (last.args[1] = Region(3) \/ last.args[2] = Region(3)))
        => (last.outcome # "panic" /\ response.status # "error")

\* the last call was a fetch of a running module whose request region
\* (options_ptr, options_len) ends beyond the guest memory
OptionsOutOfRange ==
    /\ last.fn = "fetch"
    /\ has_memory
    /\ last.args[1][1] + last.args[1][2] > MemSize

\* the last call was a fetch whose request region lies inside the guest
\* memory and holds bytes that do not decode as a request
OptionsUndecodable ==
    /\ last.fn = "fetch"
    /\ has_memory
    /\ last.args[1][1] + last.args[1][2] <= MemSize
    /\ ~DecodeOptions(SubSeq(mem, last.args[1][1] + 1,
                             last.args[1][1] + last.args[1][2])).some

\* the last call was a fetch whose serialized result fits the declared
\* capacity while the region it is to be written to ends beyond the guest
\* memory
ResponseOutOfRange ==
    /\ FetchSerialized
    /\ last.n <= last.args[2][2]
    /\ last.args[2][1] + last.n > MemSize

\* C11: a fetch call that fails for a reason the guest is responsible for
\* (request region out of range, request that does not decode, response
\* region out of range) returns a negative value to the guest; the guest
\* keeps running and the invocation is not aborted.
C11_GuestFailureIsLocal ==
    (OptionsOutOfRange \/ OptionsUndecodable \/ ResponseOutOfRange)
        => /\ last.outcome = "ok"
           /\ last.ret < 0
           /\ response.status # "error"

\* C12: when app_log is called while the host holds no handle to the
\* guest's memory (by the module's start function, during instantiation),
\* the invocation is aborted and its error is the Internal error
\* (INTERNAL_ERROR).
C12_MissingMemoryIsInternalError ==
    (last.fn = "app_log" /\ ~has_memory /\ pc = "Responded")
        => /\ response.status = "error"
           /\ response.code = "INTERNAL_ERROR"

\* the last call was a fetch whose serialized result fits the declared
\* capacity and whose target region lies inside the guest memory
FetchFits ==
    /\ FetchSerialized
    /\ last.n <= last.args[2][2]
    /\ last.args[2][1] + last.n <= MemSize

\* C13: a fetch call whose serialized result of n bytes fits the capacity
\* and whose target region lies inside the guest memory writes exactly
\* those n bytes at resp_ptr, returns n, a positive value not above the
\* capacity, and leaves every other byte of the guest memory as it was; and
\* the value a fetch call returns is negative if and only if the result did
\* not fit the capacity.
C13_FetchWriteFrame ==
    /\ FetchFits =>
         /\ last.outcome = "ok"
         /\ last.ret = last.n
         /\ last.ret > 0
         /\ last.ret <= last.args[2][2]
         /\ \A i \in 1..MemSize :
              mem[i] = IF i > last.args[2][1] /\ i <= last.args[2][1] + last.n
                       THEN Flat(SerializedDoc(last.reply))[i - last.args[2][1]]
                       ELSE last.before[i]
    /\ (FetchSerialized /\ last.outcome = "ok") =>
         (last.ret < 0 <=> last.n > last.args[2][2])

\* the part of C13 about results that fit
C13_FitIsWrittenInFrame ==
    FetchFits =>
         /\ last.outcome = "ok"
         /\ last.ret = last.n
         /\ \A i \in 1..MemSize :
              mem[i] = IF i > last.args[2][1] /\ i <= last.args[2][1] + last.n
                       THEN Flat(SerializedDoc(last.reply))[i - last.args[2][1]]
                       ELSE last.before[i]

\* C14: every failure of the payload download, the server answering with a
\* non-success status included, is answered with 502 and FETCH_ERROR, never
\* with INTERNAL_ERROR.
C14_DownloadFailureIsFetchError ==
    (pc = "Responded" /\ fault_at = "Classified")
        => /\ response.status = "error"
           /\ response.http = 502
           /\ response.code = "FETCH_ERROR"

\* the error kind the stage that failed is to be reported with: the
\* scripted engine's parse and runtime failures as QuickJs, the module
\* engine's compile, link, instantiate and trap failures as Wasmtime, a
\* download failure as Reqwest, an unsupported suffix, a script that is not
\* UTF-8 and a missing memory export as Internal
ExpectedKind ==
    CASE fault_at = "Received" -> "Internal"
      [] fault_at = "Classified" -> "Reqwest"
      [] fault_at = "Downloaded" ->
             IF code_type = "javascript" THEN "Internal" ELSE "Wasmtime"
      [] fault_at = "Instantiating" ->
             IF code_type = "javascript" THEN "QuickJs"
             ELSE IF InstantiateOk(payload) THEN "Internal" ELSE "Wasmtime"
      [] fault_at = "Running" ->
             IF code_type = "javascript" THEN "QuickJs" ELSE "Wasmtime"
      [] OTHER -> "none"

\* C15: every failure of a stage is answered with exactly one of the four
\* error kinds, each with its fixed HTTP status and code: QuickJs (500,
\* JAVASCRIPT_EXECUTION_ERROR) for the scripted engine, Wasmtime (500,
\* WEBASSEMBLY_EXECUTION_ERROR) for the module engine, Reqwest (502,
\* FETCH_ERROR) for a failed download, Internal (500, INTERNAL_ERROR) for an
\* unsupported suffix, a script that is not UTF-8 and a missing memory
\* export.
C15_FailureKinds ==
    (pc = "Responded" /\ fault_at # "none")
        => /\ response.status = "error"
           /\ response.err_kind = ExpectedKind
           /\ <<response.http, response.code>> =
                 CASE ExpectedKind = "QuickJs" -> <<500, "JAVASCRIPT_EXECUTION_ERROR">>
                   [] ExpectedKind = "Wasmtime" -> <<500, "WEBASSEMBLY_EXECUTION_ERROR">>
                   [] ExpectedKind = "Reqwest" -> <<502, "FETCH_ERROR">>
                   [] ExpectedKind = "Internal" -> <<500, "INTERNAL_ERROR">>

\* the part of C15 that does not depend on the failed stage: an error
\* response carries one of the four kinds with its fixed status and code
C15_KindFixesStatusAndCode ==
    (pc = "Responded" /\ response.status = "error")
        => <<response.err_kind, response.http, response.code>> \in
              { <<"QuickJs", 500, "JAVASCRIPT_EXECUTION_ERROR">>,
                <<"Wasmtime", 500, "WEBASSEMBLY_EXECUTION_ERROR">>,
                <<"Reqwest", 502, "FETCH_ERROR">>,
                <<"Internal", 500, "INTERNAL_ERROR">> }

\* one stage to the next, in the order of the pipeline
StageOrder ==
    { <<"Received", "Classified">>, <<"Classified", "Downloaded">>,
      <<"Downloaded", "Instantiating">>, <<"Instantiating", "Running">> }

NoEntryPointAnswered ==
    /\ code_type = "webassembly"
    /\ pc = "Responded"
    /\ fault_at # "Classified"
    /\ payload.binary_ok
    /\ payload.imports_ok
    /\ payload.memory_export = "memory"
    /\ payload.start_export = "none"
    /\ payload.start_section # "traps"

C17_SessionsIsolated ==
    /\ \A s, t \in Sessions :
         (s # t /\ session[s].stage # "queued" /\ session[t].stage # "queued")
            => {session[s].out, session[s].err}
                 \cap {session[t].out, session[t].err} = {}
    /\ \A s \in Sessions : session[s].stage # "queued"
            => session[s].out # session[s].err
    /\ \A s \in Sessions : session[s].result.some =>
         /\ session[s].result.v =
               <<Lines(session[s].wrote_out), Lines(session[s].wrote_err)>>
         /\ \A t \in Sessions \ {s} :
               /\ ~Occurs(Tag(t), session[s].result.v[1])
               /\ ~Occurs(Tag(t), session[s].result.v[2])

\* two scripts have their results: the one that started first wrote to its
\* stdout, the other to its stderr
C17_Witness ==
    \E s, t \in Sessions :
        /\ s # t
        /\ session[s].result.some
        /\ session[t].result.some
        /\ session[s].out < session[t].out
        /\ session[s].result.v = <<Lines(<<Tag(s)>>), <<>> >>
        /\ session[t].result.v = << <<>>, Lines(<<Tag(t)>>)>>

PrimitiveText(v) ==
    CASE v = JsString(<<104, 105>>) -> <<104, 105>>
      [] v = JsFloat(15) -> <<49, 46, 53>>
      [] v = JsString(<<>>) -> <<>>
      [] v = JsInt(2) -> <<50>>
      [] v = JsInt(-3) -> <<45, 51>>
      [] v = JsFloat(25) -> <<50, 46, 53>>
      [] v = JsBool(TRUE) -> <<116, 114, 117, 101>>
      [] v = JsBool(FALSE) -> <<102, 97, 108, 115, 101>>
      [] v = JsNull -> <<110, 117, 108, 108>>
      [] v = JsUndefined -> <<117, 110, 100, 101, 102, 105, 110, 101, 100>>

\* a script has completed and its result has been built
ScriptCompleted ==
    /\ pc = "Responded"
    /\ response.status = "success"
    /\ response.code_type = "javascript"

WroteTo(fn) == calls' = calls + 1 /\ last'.fn = fn /\ last'.outcome = "ok"

\* C21: a write to one capture stream appends exactly the given text followed
\* by one line feed to that stream and leaves the other stream as it was
\* (console.log changes stdout only, console.error changes stderr only); the
\* read of the two streams after the guest has completed puts their whole
\* contents into the result and changes neither.
C21_WriteAndReadFrame ==
    [][ /\ WroteTo("console.log") =>
              /\ stdout' = stdout \o ConsoleMessage(last'.args) \o <<10>>
              /\ stderr' = stderr
        /\ WroteTo("console.error") =>
              /\ stderr' = stderr \o ConsoleMessage(last'.args) \o <<10>>
              /\ stdout' = stdout
        /\ WroteTo("js_app_log") =>
              /\ stdout' = stdout \o JsAppLogText(last'.args[1], last'.args[2])
                                   \o <<10>>
              /\ stderr' = stderr
        /\ (pc = "Running" /\ pc' = "Responded" /\ response'.status = "success") =>
              /\ response'.stdout = [some |-> TRUE, v |-> stdout]
              /\ response'.stderr = [some |-> TRUE, v |-> stderr]
              /\ stdout' = stdout
              /\ stderr' = stderr ]_vars

\* a script that wrote "hi 7" to stdout and then "hi" to stderr has completed
\* and both lines are in the result
C21_Witness ==
    /\ pc = "Responded"
    /\ code_type = "javascript"
    /\ response.status = "success"
    /\ last.fn = "console.error"
    /\ response.stdout = [some |-> TRUE, v |-> <<104, 105, 32, 55, 10>>]
    /\ response.stderr = [some |-> TRUE, v |-> <<104, 105, 10>>]

RECURSIVE Repeat(_, _)
Repeat(x, n) == IF n = 0 THEN <<>> ELSE x \o Repeat(x, n - 1)

\* the holder of a buffer's lock is a running thread that has passed lock()
\* in a capture function for that buffer and has nothing left to do there
\* but the two pushes and the release
HeldWithinAppend ==
    \A b \in 1..Len(locks) :
        locks[b] # 0 =>
            /\ session[locks[b]].stage = "running"
            /\ session[locks[b]].at > 0
            /\ Target(locks[b]) = b
            /\ CaptureSteps[session[locks[b]].at] \in {"push_str", "push", "unlock"}

\* a buffer holds whole lines of its session's text, and at most the text of
\* the write in progress while its lock is held
WholeLines ==
    \A s \in Sessions, b \in 1..Len(buffers) :
        (session[s].out = b \/ session[s].err = b) =>
            \E n \in 0..MaxSessionCalls :
                \/ buffers[b] = Repeat(Tag(s) \o <<10>>, n)
                \/ /\ locks[b] = s
                   /\ buffers[b] = Repeat(Tag(s) \o <<10>>, n) \o Tag(s)

\* a thread that has arrived at lock() finds the Mutex free: it goes on
\* without waiting
LockFreeOnArrival ==
    \A s \in Sessions :
        (session[s].at > 0 /\ CaptureSteps[session[s].at] = "lock") =>
            locks[Target(s)] = 0

\* C22: the lock of a capture buffer is taken and released within one
\* append: its holder is never printing to the host's streams nor waiting on
\* an HTTP operation, the buffers never hold the text of one write split by
\* another, and no writer waits for the lock forever, since every writer
\* that arrives at it finds it free.
C22_LockWithinAppend == HeldWithinAppend /\ WholeLines /\ LockFreeOnArrival

\* a script holds the lock of its buffer, its text pushed and the line feed
\* not yet, while the module of another session waits on its HTTP operation
C22_Witness ==
    \E s \in Sessions, t \in Sessions :
        /\ session[s].at > 0
        /\ CaptureSteps[session[s].at] = "push"
        /\ locks[Target(s)] = s
        /\ buffers[Target(s)] = Tag(s)
        /\ session[t].stage = "fetching"

\* C23: the reported execution_time is read after the guest has finished:
\* for a module with an entry point after '_start' has returned, for a
\* script after its evaluation has returned; it is the time at that point
\* and covers every call the guest made, not only the instantiation.
C23_TimeAfterGuest ==
    (pc = "Responded" /\ response.status = "success") =>
        /\ (code_type = "webassembly" /\ start_calls = 1) =>
              /\ response.execution_time = elapsed
              /\ response.execution_time = metadata.execution_time + calls
        /\ code_type = "javascript" =>
              /\ response.execution_time = elapsed
              /\ response.execution_time = 1 + calls

\* a module whose '_start' made two calls has returned, and the reported
\* time is two calls longer than the time measured after instantiation
C23_Witness ==
    /\ pc = "Responded"
    /\ response.status = "success"
    /\ code_type = "webassembly"
    /\ start_calls = 1
    /\ calls = 2
    /\ metadata.execution_time = 1
    /\ response.execution_time = 3

\* C24: the clock capability gives the current Unix time as a whole number
\* of seconds in both guest variants: what a script gets from get_unixtime()
\* is an integer, the one a compiled module gets at the same clock reading.
C24_ClockWholeSeconds ==
    (last.fn = "js_get_unixtime" /\ last.args[1] >= 0) =>
        /\ last.n = 0
        /\ ClockValue(last.args[1]) = JsInt(get_unixtime(last.args[1], mem).ret)

\* the request was executed twice with the same payload and both executions
\* gave a result
ExecutedTwice ==
    /\ pc = "Responded"
    /\ response.status = "success"
    /\ prev.some
    /\ prev.v.payload = payload

\* C25: executing the same URL twice with an unchanged payload gives the same
\* output and the same resource_size in the two results, for every payload
\* of either kind.
C25_SameUrlSameResult ==
    ExecutedTwice =>
        /\ response.output = prev.v.output
        /\ response.resource_size = prev.v.resource_size

\* the same holds of every payload but the script that ends with the clock
C25_SameResultWithoutClock ==
    (ExecutedTwice /\ "completes" \in DOMAIN payload /\ payload.completes # JsClock) =>
        /\ response.output = prev.v.output
        /\ response.resource_size = prev.v.resource_size

\* C26: within one session every fetch call uses the one HTTP client created
\* with the session: the number of clients created during the session stays
\* at one however many fetch calls the guest makes.
C26_OneClientPerSession ==
    (code_type = "webassembly" /\ fetch_impl # "none") => clients = 1

\* the same of the fetch that register_linker_functions registers
C26_OneClientInLinkerFunctions ==
    (code_type = "webassembly" /\ fetch_impl = "wasm_ffis") => clients = 1

\* status, output and error of a response agree: "success" exactly when the
\* error is absent and the output present, "error" exactly when the error
\* (a code and a message) is present and the output absent
StatusMatchesContent ==
    /\ response.status \in {"success", "error"}
    /\ response.status = "success" <=>
          (response.code = "none" /\ response.output.some)
    /\ response.status = "error" <=>
          (response.code # "none" /\ ~response.output.some)

\* C27: every response, success or error, has the same envelope shape with
\* the fields status, output, stdout, stderr, error and metadata, and its
\* status agrees with the presence of output and error.
C27_OneEnvelopeShape ==
    pc = "Responded" =>
        /\ response.keys = {"status", "output", "stdout", "stderr", "error",
                            "metadata"}
        /\ StatusMatchesContent

\* the part about status, output and error alone
C27_StatusAgrees == pc = "Responded" => StatusMatchesContent

\* C28: a fetch result serialized into the response buffer and decoded by a
\* reference decoder gives back the status, the header map, the body text and
\* the optional error descriptor it was built from
C28_RoundTrip ==
    wire.stage = "decoded" =>
        /\ wire.decoded.some
        /\ wire.decoded.v.status = wire.result.status
        /\ { wire.decoded.v.headers[i] : i \in DOMAIN wire.decoded.v.headers }
             = { wire.result.headers[i] : i \in DOMAIN wire.result.headers }
        /\ Len(wire.decoded.v.headers) = Len(wire.result.headers)
        /\ wire.decoded.v.body = Flat(wire.result.body)
        /\ wire.decoded.v.error = wire.result.error

\* a result with a status, two headers, a quote in its body and an error
\* whose message holds quotes has been through serializer and decoder
C28_Witness ==
    /\ wire.stage = "decoded"
    /\ wire.decoded.some
    /\ wire.result.status = 65535
    /\ Len(wire.result.headers) = 2
    /\ Flat(wire.result.body) = <<97, 34, 98>>
    /\ wire.result.error.some
    /\ 34 \in { wire.result.error.v.message[i] :
                  i \in DOMAIN wire.result.error.v.message }
    /\ Len(wire.bytes) > Len(Flat(wire.result.body))

\* the guest faulted while it ran (a trap in '_start', an uncaught exception
\* of a script) after it had written a line
FaultedAfterOutput ==
    /\ pc = "Responded"
    /\ fault_at = "Running"
    /\ stdout # <<>> \/ stderr # <<>> \/ log_calls # <<>>

C29_TrapAfterLog ==
    /\ FaultedAfterOutput
    /\ code_type = "webassembly"
    /\ response.err_kind = "Wasmtime"
    /\ log_calls # <<>>
    /\ elapsed > 0

\* the call c is a fetch whose request passed every test that precedes the
\* outbound request: the memory handle is there, the request region lies in
\* the guest memory, its bytes decode, method and headers are valid
PassedValidation(c, hm) ==
    /\ c.fn = "fetch"
    /\ hm
    /\ c.args[1][1] + c.args[1][2] <= Len(c.before)
    /\ LET o == DecodeOptions(SubSeq(c.before, c.args[1][1] + 1,
                                     c.args[1][1] + c.args[1][2]))
       IN  o.some /\ RequestValid(o.v)

\* C30: every fetch call that passes request validation sends exactly one
\* outbound request, whatever it returns afterwards (a negative return
\* included), and nothing else sends one; so a retry after a negative return
\* sends again, and the requests sent in a session are as many as its
\* validated fetch calls
C30_OneRequestPerValidatedCall ==
    [][ IF calls' = calls + 1 /\ PassedValidation(last', has_memory')
        THEN sent' = sent + 1
        ELSE sent' = sent ]_vars

\* two fetch calls were made, the second returned the negative size of its
\* result, and two requests went out
C30_Witness ==
    /\ calls = 2
    /\ sent = 2
    /\ PassedValidation(last, has_memory)
    /\ last.outcome = "ok"
    /\ last.ret < 0

\* the request of the fetch call c, when its region lies in the guest memory
\* and its bytes decode
RequestOf(c) ==
    IF c.args[1][1] + c.args[1][2] <= Len(c.before)
    THEN DecodeOptions(SubSeq(c.before, c.args[1][1] + 1,
                              c.args[1][1] + c.args[1][2]))
    ELSE None

\* the request region of the fetch call c ends beyond the guest memory
RegionOutOfRange(c) ==
    c.fn = "fetch" /\ c.args[1][1] + c.args[1][2] > Len(c.before)

\* the request bytes of the fetch call c do not decode
RequestUndecodable(c) ==
    c.fn = "fetch" /\ ~RegionOutOfRange(c) /\ ~RequestOf(c).some

\* the method of the request of the fetch call c is no HTTP method
MethodInvalid(c) ==
    c.fn = "fetch" /\ RequestOf(c).some /\ ~MethodValid(RequestOf(c).v.method)

\* a header of the request of the fetch call c has an invalid name or value
HeaderInvalid(c) ==
    /\ c.fn = "fetch"
    /\ RequestOf(c).some
    /\ \E i \in 1..Len(RequestOf(c).v.headers) :
          \/ ~HeaderNameValid(RequestOf(c).v.headers[i][1])
          \/ ~HeaderValueValid(RequestOf(c).v.headers[i][2])

\* C31: a fetch call whose request region is out of range, whose request
\* bytes do not decode, or whose method or a header name or value is invalid
\* sends no outbound request: the step of such a call leaves the number of
\* requests sent as it was, and the call's record names no network outcome
C31_ValidationBeforeNetwork ==
    [][ ( /\ calls' = calls + 1
          /\ \/ RegionOutOfRange(last')
             \/ RequestUndecodable(last')
             \/ MethodInvalid(last')
             \/ HeaderInvalid(last') )
        => /\ sent' = sent
           /\ last'.net = "none"
           /\ last'.reply = NoReply
           /\ last'.outcome # "ok" ]_vars

\* a module with its memory called fetch with a request whose header value
\* holds a line feed, after a first fetch call had sent its request: the call
\* trapped and one request is out
C31_Witness ==
    /\ has_memory
    /\ calls = 2
    /\ HeaderInvalid(last)
    /\ MethodValid(RequestOf(last).v.method)
    /\ last.outcome = "trap"
    /\ sent = 1
    /\ response.err_kind = "Wasmtime"

\* the step is a call of fetch by a script
ScriptFetchStep == calls' = calls + 1 /\ last'.fn = "js_fetch"

\* what every call of fetch by a script does, whatever it throws: it throws,
\* it sends no request, and the invocation either goes on (the script caught
\* the exception) or ends with a JAVASCRIPT_EXECUTION_ERROR
ScriptFetchThrows ==
    /\ last'.outcome = "throw"
    /\ sent' = sent
    /\ sent' = 0
    /\ \/ pc' = "Running" /\ response' = response
       \/ /\ pc' = "Responded"
          /\ response'.status = "error"
          /\ response'.code = "JAVASCRIPT_EXECUTION_ERROR"

WithoutEntryPoint(p, t) ==
    IF ~p.binary_ok \/ ~InstantiateOk(p) THEN ErrorResponse("Wasmtime")
    ELSE IF ~MemoryExported(p) THEN ErrorResponse("Internal")
    ELSE SuccessResponse(OUT_INSTANTIATED, <<>>, <<>>,
                         ExecutionMetadata(t, "webassembly", p.size))

\* a compiled module has been downloaded whose export '_start' is as given
ModuleWithStart(kinds) ==
    /\ code_type = "webassembly"
    /\ payload # NoPayload
    /\ payload.start_export \in kinds

\* C33: a module whose '_start' export is not a parameterless, resultless
\* function is handled as a module without '_start' is: the export is never
\* called, the guest never runs, and the response is the one a module
\* without entry point gets, a success with the output "WASM module
\* instantiated (no _start called or found)" when instantiation and the
\* memory lookup succeed
C33_WrongSignatureIsNoEntryPoint ==
    ModuleWithStart({"wrong_type", "none"}) =>
        /\ start_calls = 0
        /\ pc \notin {"Running", "Panicked"}
        /\ pc = "Responded" => response = WithoutEntryPoint(payload, elapsed)

\* a module with a memory and a '_start' of another signature ended in the
\* success response with the output of the branch without entry point
C33_Witness ==
    /\ ModuleWithStart({"wrong_type"})
    /\ pc = "Responded"
    /\ response.status = "success"
    /\ response.output = Some(OUT_INSTANTIATED)
    /\ start_calls = 0
    /\ instantiations = 1

====
